---- MODULE Spec2Model ----
(***************************************************************************)
(* A model of aida's real-time voice session: one conversation turn of     *)
(* VoiceMode.handle_conversation (modes/voice_mode.py) over the streaming  *)
(* transcription client STTService (services/stt_service.py) and the       *)
(* playback of AudioManager (core/audio_manager.py).                       *)
(*                                                                         *)
(* The program runs on one asyncio event loop.  A step of the model is the *)
(* code a coroutine runs between two suspension points (an await that      *)
(* really yields: socket send/recv, sleep, lock, awaiting a task).  A call *)
(* that is not awaited on the loop (stream.read, elevenlabs' stream) blocks*)
(* every other coroutine while it runs.                                    *)
(***************************************************************************)
EXTENDS Integers, Sequences, FiniteSets, TLC

(***************************************************************************)
(* Bounds of the model.                                                    *)
(***************************************************************************)
\* final Results messages the remote service sends during the turn
MaxFinals == 2
MaxCycles == 2
MaxCalls == 2
MaxItems == 3
MaxAdds == 6
MaxArms == 3
MaxRequests == 2

(***************************************************************************)
(* Program constants.                                                      *)
(***************************************************************************)
\* stt_service.py:22
MAX_RECONNECT_ATTEMPTS == 5
\* voice_mode.py:152, the peak amplitude a frame must exceed to count as speech
SILENCE_LEVEL == 200
\* voice_mode.py:157, the consecutive-silence limit
SILENCE_FRAMES == 100
\* voice_mode.py:110
INIT_ATTEMPTS == 3

(***************************************************************************)
(* Threads of control: the conversation coroutine (the capture loop), the  *)
(* receiver task and the keepalive task.  connect() cancels the tasks it   *)
(* finds and creates new ones, so at most one task of each kind is alive:  *)
(* RECV and KEEP stand for the task self.message_handler_task and          *)
(* self.keepalive_task name at the moment.                                 *)
(***************************************************************************)
CAP == "cap"
RECV == "recv"
KEEP == "keep"
NoThread == "nobody"
Threads == {CAP, RECV, KEEP}

(***************************************************************************)
(* Text.  A transcript is a sequence of characters; str.strip() removes    *)
(* the leading and trailing blanks.                                        *)
(***************************************************************************)
RECURSIVE LStrip(_)
LStrip(s) == IF s # <<>> /\ Head(s) = " " THEN LStrip(Tail(s)) ELSE s

RECURSIVE RStrip(_)
RStrip(s) == IF s # <<>> /\ s[Len(s)] = " " THEN RStrip(SubSeq(s, 1, Len(s) - 1)) ELSE s

\* variant: str.lstrip() in place of str.strip()
StripLeft(s) == LStrip(s)

Strip(s) == RStrip(LStrip(s))

(***************************************************************************)
(* Audio frames: 16-bit signed samples.  The capture loop computes the     *)
(* peak amplitude max(abs(sample)) of a frame.                             *)
(***************************************************************************)
Abs(x) == IF x < 0 THEN -x ELSE x

RECURSIVE MaxAbs(_)
MaxAbs(samples) ==
    IF samples = <<>> THEN 0
    ELSE LET r == MaxAbs(Tail(samples))
             a == Abs(Head(samples))
         IN IF a > r THEN a ELSE r

AudioLevel(frame) == MaxAbs(frame.samples)

MicFrame(samples, tag) == [kind |-> "mic", samples |-> samples, tag |-> tag]
\* b'\x00' * 2048
FillerFrame == [kind |-> "filler", samples |-> <<0, 0>>, tag |-> 0]

\* frames a microphone can deliver: silence, a peak exactly at the threshold,
\* a peak just above it (reached by a negative sample)
QuietFrames == {MicFrame(<<0, 0>>, 0), MicFrame(<<SILENCE_LEVEL, -SILENCE_LEVEL>>, 0)}
LoudFrames == {MicFrame(<<0, -(SILENCE_LEVEL + 1)>>, 0)}
\* the one frame the observations follow through the client (tag 1)
MarkedFrame == MicFrame(<<SILENCE_LEVEL + 1, 0>>, 1)
\* stream.read raised
ReadError == [kind |-> "error", samples |-> <<>>, tag |-> 0]

(***************************************************************************)
(* Inbound protocol messages.                                              *)
(***************************************************************************)
\* alternatives stands for result['channel']['alternatives']
Results(fin, text) ==
    [json |-> TRUE, type |-> "Results", is_final |-> fin,
     alternatives |-> <<[transcript |-> text]>>]
ResultsNoAlt(fin) ==
    [json |-> TRUE, type |-> "Results", is_final |-> fin, alternatives |-> <<>>]
Control(type) ==
    [json |-> TRUE, type |-> type, is_final |-> FALSE, alternatives |-> <<>>]
Malformed == [json |-> FALSE, type |-> "", is_final |-> FALSE, alternatives |-> <<>>]
\* a message of another type that carries the fields of a final Results
Other(type, text) ==
    [json |-> TRUE, type |-> type, is_final |-> TRUE,
     alternatives |-> <<[transcript |-> text]>>]

\* result.get('type') as logged by _process_message (line 155);
\* "malformed" when json.loads raised
MsgKind(m) == IF m.json THEN m.type ELSE "malformed"

TextA == <<"a">>
TextB == <<" ", "b", " ">>
TextBlank == <<" ">>
TextEmpty == <<>>

IsFinalResults(m) == m.json /\ m.type = "Results" /\ m.is_final

NoCallback == [transcript |-> <<>>, is_final |-> FALSE, set |-> FALSE]

(***************************************************************************)
(* Sockets.  self.websocket is None or names a socket object.  Every path  *)
(* that drops the name (cleanup_connection) has closed the socket or found *)
(* it closing, so a socket self.websocket named before is never open       *)
(* again.  The model keeps the state of the socket self.websocket names    *)
(* and, for each pending await, whether it is on that socket or on a       *)
(* replaced one.                                                           *)
(***************************************************************************)
VARIABLES
    \* STTService
    websocket,              \* "none" is None, else the state of the socket:
                            \* "open" | "closing" | "closed"
    connection_alive,
    reconnect_attempts,
    lock,                   \* holder of _connection_lock
    \* VoiceMode / AudioManager
    is_listening,
    processing_response,        \* the local of handle_conversation
    self_processing_response,   \* the attribute set by _handle_transcript
    silence_counter,
    stream,                 \* microphone stream: "none" | "open" | "closed"
    is_speaking,
    init_attempt,
    \* coroutines
    pc,                     \* thread -> where it is suspended
    wsock,                  \* thread -> the socket its pending await is on:
                            \* "none" | "current" | "old"
    cap_call,               \* what the conversation coroutine called connect from
    close_mh,               \* close(): the receiver task captured in `tasks`:
                            \* "none" | "held" | "replaced"
    \* observations
    wire,                   \* what the last step wrote on self.websocket
    finals,                 \* delivered final fragments of the turn, in order
    utterances,             \* texts handed to AidaAssistant.process_input, in order
    last_cb,                \* the argument of the last transcript callback
    spoken,                 \* replies passed to VoiceMode.speak
    cancelled,              \* process_input calls cancelled in flight
    closes,                 \* <<stream closes, STTService.close calls>>
    mark,                   \* the fate of the one marked microphone frame
    failed_attempts,        \* reconnects that failed since the last connect
                            \* that succeeded
    \* VoiceMode.run, main
    shutdown_event,
    porcupine,              \* WakeWordDetector.porcupine is set
    listened,               \* how listen_for_wake_word ended in this cycle
    interrupted,            \* the main task was cancelled (Ctrl-C)
    cycles,                 \* passes of the loop of VoiceMode.run
    timer,                  \* InactivityTimer: "idle" | "armed" | "stopped"
    \* STTService, observations
    last_msg,               \* the kind of the last message recv() returned
    audio_age,              \* seconds since _last_audio_time, capped
    open_sockets,           \* sockets opened and not closed since
    wait_time,              \* the last backoff wait computed (line 211)
    started_attempts,       \* reconnects started since the last connect
                            \* that succeeded
    \* AidaAssistant
    pi_pc,                  \* where process_input is
    user_input,
    handler_response,       \* what handle_message_with_tools returned
    response,               \* what process_input returned
    background_tasks,       \* the exchanges of the storage tasks running
    stored,                 \* exchanges persisted, in order
    processing_complete,
    calls,                  \* process_input calls made
    \* STTService.process_audio
    \* Mem0Service
    batch_queue,            \* _batch_queue: the interactions waiting
    mem_pc,                 \* _process_batch: "idle" | "gather"
    batch,                  \* the local `batch` of the running _process_batch
    running,                \* the _store_single_interaction calls not ended
    backend,                \* the interactions passed to memory.add, in order
    queued,                 \* interactions queued so far (they are 1..queued)
    exited,                 \* main has returned
    \* ConversationCache
    conversations,          \* user -> the deque of the user's interactions
    added,                  \* user -> every interaction added, in order
    context,                \* what the last get_recent_context returned
    ctx_call,               \* the arguments of that call, and the adds before it
    \* InactivityTimer
    timers,                 \* every threading.Timer created, in order
    inactivity_timer,       \* self.inactivity_timer: an index of timers, 0 for None
    warning_timer,          \* self.warning_timer: likewise
    tm_op,                  \* the method called last
    \* ClaudeService._make_request_with_retry
    rq_pc,                  \* "idle", "calling", "sleeping", "returned", "raised"
    attempt,                \* the loop variable
    invocations,            \* calls of func made for this request
    waits,                  \* the sleeps taken for this request, in order
    errors,                 \* the exceptions of this request's calls, in order
    rq_outcome,             \* what the request returned or raised
    finished,               \* the outcomes of the earlier requests
    \* STTService.process_audio
    pa_return               \* what the capture loop's last call returned:
                            \* "True" | "False", "pending" during the call,
                            \* "none" when the iteration made no call

sttVars == <<websocket, connection_alive, reconnect_attempts, lock>>
voiceVars == <<is_listening, processing_response, self_processing_response,
               silence_counter, stream, is_speaking, init_attempt>>
coVars == <<pc, wsock, cap_call, close_mh>>
obsVars == <<finals, utterances, last_cb, spoken, cancelled, closes, mark>>
runVars == <<shutdown_event, porcupine, listened, interrupted, cycles>>
backoffVars == <<wait_time, started_attempts>>
asstVars == <<pi_pc, user_input, handler_response, response, background_tasks,
              stored, processing_complete, calls>>
memVars == <<batch_queue, mem_pc, batch, running, backend, queued, exited>>
cacheVars == <<conversations, added, context, ctx_call>>
tmVars == <<timers, inactivity_timer, warning_timer, tm_op>>
rqVars == <<rq_pc, attempt, invocations, waits, errors, rq_outcome, finished>>
svcVars == <<asstVars, memVars, cacheVars, tmVars, rqVars>>
auxVars == <<timer, last_msg, audio_age, open_sockets, backoffVars, svcVars,
             pa_return>>
vars == <<sttVars, voiceVars, coVars, wire, obsVars, failed_attempts, runVars, auxVars>>

\* the task objects, by where they are: "none" is None, "done" is task.done()
message_handler_task == pc[RECV]
keepalive_task == pc[KEEP]

NoWrite == "none"
\* handed: it was passed to process_audio; down: connection_alive was clear
\* then; sent: it was written on a socket; later: a frame read after it was
\* written on a socket
NoMark == [handed |-> FALSE, down |-> FALSE, sent |-> FALSE, later |-> FALSE]

\* stt_service.py:100, 104: the keepalive period and its idle limit, seconds
KEEPALIVE_SECS == 5
\* stt_service.py:23
RECONNECT_DELAY == 2

NoText == <<"?">>

\* ConversationCache: the users, and the arguments of get_recent_context
\* (limit is Optional[int]: given is FALSE for None)
Users == {"u1", "u2"}
Limit(given, n) == [given |-> given, n |-> n]
NoCall == [made |-> FALSE, user |-> "u1", limit |-> Limit(FALSE, 0), adds |-> 0]

\* InactivityTimer.__init__, STTService.__init__ (_last_audio_time = 0: no
\* audio for longer than any limit), AidaAssistant.__init__
InitAux ==
    /\ timer = "idle"
    /\ last_msg = "none"
    /\ audio_age = KEEPALIVE_SECS + 1
    /\ open_sockets = 0
    /\ wait_time = 0
    /\ started_attempts = 0
    /\ pi_pc = "idle"
    /\ user_input = NoText
    /\ handler_response = NoText
    /\ response = NoText
    /\ background_tasks = <<>>
    /\ stored = <<>>
    /\ processing_complete = FALSE
    /\ calls = 0
    /\ pa_return = "none"
    /\ batch_queue = <<>>
    /\ mem_pc = "idle"
    /\ batch = <<>>
    /\ running = <<>>
    /\ backend = <<>>
    /\ queued = 0
    /\ exited = FALSE
    /\ conversations = <<>>
    /\ added = [u \in Users |-> <<>>]
    /\ context = <<>>
    /\ ctx_call = NoCall
    /\ timers = <<>>
    /\ inactivity_timer = 0
    /\ warning_timer = 0
    /\ tm_op = "none"
    /\ rq_pc = "idle"
    /\ attempt = 0
    /\ invocations = 0
    /\ waits = <<>>
    /\ errors = <<>>
    /\ rq_outcome = <<"none">>
    /\ finished = <<>>

\* STTService.__init__, VoiceMode.__init__; the wake word was just detected
Init ==
    /\ websocket = "none"
    /\ connection_alive = FALSE
    /\ reconnect_attempts = 0
    /\ lock = NoThread
    /\ is_listening = FALSE
    /\ processing_response = FALSE
    /\ self_processing_response = FALSE
    /\ silence_counter = 0
    /\ stream = "none"
    /\ is_speaking = FALSE
    /\ init_attempt = 0
    /\ pc = [t \in Threads |-> IF t = CAP THEN "conversation" ELSE "none"]
    /\ wsock = [t \in Threads |-> "none"]
    /\ cap_call = "none"
    /\ close_mh = "none"
    /\ wire = NoWrite
    /\ finals = <<>>
    /\ utterances = <<>>
    /\ last_cb = NoCallback
    /\ spoken = 0
    /\ cancelled = 0
    /\ closes = <<0, 0>>
    /\ mark = NoMark
    /\ failed_attempts = 0
    /\ shutdown_event = FALSE
    /\ porcupine = TRUE
    /\ listened = "detected"
    /\ interrupted = FALSE
    /\ cycles = 1
    /\ InitAux

(***************************************************************************)
(* Scheduling.  A coroutine that is running (not suspended at an await)    *)
(* keeps the event loop: nothing else runs until it suspends.  Playback is *)
(* such a stretch: play_audio_stream sets is_speaking, calls elevenlabs'   *)
(* stream() synchronously and clears is_speaking, with no await between.   *)
(***************************************************************************)
BlockingPlayback == {"greeting", "playing"}

\* variant: playback awaited on the loop, the way play_audio (lines 56-75)
\* polls the mixer with asyncio.sleep
RunningPcsAwaitedPlayback ==
    {"wake", "conversation", "connected", "connect_failed", "iter", "finally"}

RunningPcs ==
    {"wake", "conversation", "connected", "connect_failed", "iter", "finally"}
        \cup BlockingPlayback

Turn(t) == \A u \in Threads : pc[u] \in RunningPcs => u = t

Live(t) == pc[t] \notin {"none", "done"}
Tasks == {RECV, KEEP}

SetPc(t, v) == [pc EXCEPT ![t] = v]
Await(t, s) == [wsock EXCEPT ![t] = s]

\* task.cancel() on suspended tasks: CancelledError is raised at their await
\* and runs them to their end (finally: processing_response = False; the
\* connection lock is released by `async with`)
CancelPc(C) == [u \in Threads |-> IF u \in C THEN "done" ELSE pc[u]]
CancelAwait(C) == [u \in Threads |-> IF u \in C THEN "none" ELSE wsock[u]]
\* variant: cancel() does not reach a task that waits in process_input
HitNone(C) == {}

Hit(C) == {u \in C : pc[u] = "llm"}

CancelCalls(C) ==
    /\ cancelled' = cancelled + Cardinality(Hit(C))
    /\ self_processing_response' =
           IF Hit(C) # {} THEN FALSE ELSE self_processing_response

(***************************************************************************)
(* STTService.connect, lines 38-87.                                        *)
(***************************************************************************)
\* variant: cleanup_connection without its finally (line 235)
CleanupConnectionNoFinally ==
    /\ wire' = IF websocket = "open" THEN "CloseStream" ELSE NoWrite
    /\ websocket' = IF websocket = "open" THEN "none" ELSE websocket
    /\ wsock' = [u \in Threads |-> IF wsock[u] = "current" /\ websocket = "open"
                                    THEN "old" ELSE wsock[u]]
    /\ connection_alive' = FALSE
    /\ open_sockets' = IF websocket = "open" THEN open_sockets - 1 ELSE open_sockets

\* cleanup_connection, lines 222-236, from its first await on
CleanupConnection ==
    /\ wire' = IF websocket = "open" THEN "CloseStream" ELSE NoWrite
    /\ websocket' = "none"
    /\ wsock' = [u \in Threads |-> IF wsock[u] = "current" THEN "old" ELSE wsock[u]]
    /\ connection_alive' = FALSE
    /\ open_sockets' = IF websocket \in {"open", "closing"}
                       THEN open_sockets - 1 ELSE open_sockets

\* variant: connect() without the cleanup of lines 41-43
ConnectBeginNoCleanup(t) ==
    /\ Turn(t)
    /\ pc[t] \in {"connect", "backoff", "init_sleep"}
    /\ lock = NoThread
    /\ lock' = t
    /\ pc' = SetPc(t, "conn_open")
    /\ wire' = NoWrite
    /\ UNCHANGED <<websocket, connection_alive, reconnect_attempts>>
    /\ UNCHANGED <<voiceVars, wsock, cap_call, close_mh, obsVars>>
    /\ UNCHANGED <<runVars, failed_attempts>>
    /\ UNCHANGED auxVars

\* async with self._connection_lock; if self.websocket: cleanup_connection()
ConnectBegin(t) ==
    /\ Turn(t)
    /\ pc[t] \in {"connect", "backoff", "init_sleep"}
    /\ lock = NoThread
    /\ lock' = t
    /\ pc' = SetPc(t, IF websocket # "none" THEN "conn_cleanup" ELSE "conn_open")
    /\ wire' = NoWrite
    /\ UNCHANGED <<websocket, connection_alive, reconnect_attempts>>
    /\ UNCHANGED <<voiceVars, wsock, cap_call, close_mh, obsVars>>
    /\ UNCHANGED <<runVars, failed_attempts>>
    /\ UNCHANGED auxVars

ConnectCleanup(t) ==
    /\ Turn(t)
    /\ pc[t] = "conn_cleanup"
    /\ CleanupConnection
    /\ pc' = SetPc(t, "conn_open")
    /\ UNCHANGED <<reconnect_attempts, lock>>
    /\ UNCHANGED <<voiceVars, cap_call, close_mh, obsVars>>
    /\ UNCHANGED <<runVars, failed_attempts>>
    /\ UNCHANGED <<timer, last_msg, audio_age, backoffVars, svcVars, pa_return>>

\* connect() was called by _handle_connection_error (line 215), not by
\* initialize (line 29)
IsReconnect(t) == ~(t = CAP /\ cap_call = "initialize")

\* the reconnects that failed since the last successful connect, once the
\* connect() run by t has returned False
AttemptFailed(t) == IF IsReconnect(t) THEN failed_attempts + 1 ELSE failed_attempts

\* variant: connection_alive set as soon as the socket is open, before the
\* ping/pong verification
ConnectOpenSetsAlive(t, ok) ==
    /\ Turn(t)
    /\ pc[t] = "conn_open"
    /\ IF ok
       THEN /\ websocket' = "open"
            /\ wsock' = Await(t, "current")
            /\ pc' = SetPc(t, "conn_verify")
            /\ lock' = lock
            /\ connection_alive' = TRUE
       ELSE /\ pc' = SetPc(t, "connect_failed")
            /\ lock' = NoThread
            /\ UNCHANGED <<websocket, wsock, connection_alive>>
    /\ failed_attempts' = IF ok THEN failed_attempts ELSE AttemptFailed(t)
    /\ wire' = NoWrite
    /\ UNCHANGED reconnect_attempts
    /\ UNCHANGED <<voiceVars, cap_call, close_mh, obsVars>>
    /\ UNCHANGED runVars
    /\ open_sockets' = IF ok THEN open_sockets + 1 ELSE open_sockets
    /\ UNCHANGED <<timer, last_msg, audio_age, backoffVars, svcVars, pa_return>>

\* self.websocket = await websockets.connect(...)
ConnectOpen(t, ok) ==
    /\ Turn(t)
    /\ pc[t] = "conn_open"
    /\ IF ok
       THEN /\ websocket' = "open"
            /\ wsock' = Await(t, "current")
            /\ pc' = SetPc(t, "conn_verify")
            /\ lock' = lock
       ELSE /\ pc' = SetPc(t, "connect_failed")
            /\ lock' = NoThread
            /\ UNCHANGED <<websocket, wsock>>
    /\ failed_attempts' = IF ok THEN failed_attempts ELSE AttemptFailed(t)
    /\ wire' = NoWrite
    /\ UNCHANGED <<connection_alive, reconnect_attempts>>
    /\ UNCHANGED <<voiceVars, cap_call, close_mh, obsVars>>
    /\ UNCHANGED runVars
    /\ open_sockets' = IF ok THEN open_sockets + 1 ELSE open_sockets
    /\ UNCHANGED <<timer, last_msg, audio_age, backoffVars, svcVars, pa_return>>

\* The ping/pong verification (62-68), then connection_alive.set() and the
\* two tasks (70-80): the tasks found are cancelled and new ones created.
\* When a task runs this it has cancelled itself: connect() returns True,
\* _handle_connection_error resets the attempts (217-219) and the task ends
\* at its next await (the receiver) or leaves its loop (the keepalive).
ConnectVerify(t, ok) ==
    /\ Turn(t)
    /\ pc[t] = "conn_verify"
    /\ IF ok
       THEN /\ wsock[t] = "current"
            /\ websocket = "open"
            /\ connection_alive' = TRUE
            /\ pc' = [u \in Threads |->
                        IF u \in Tasks THEN "start"
                        ELSE IF u = t THEN "connected"
                        ELSE pc[u]]
            /\ wsock' = CancelAwait(Tasks \cup {t})
            /\ reconnect_attempts' = IF t \in Tasks THEN 0 ELSE reconnect_attempts
            /\ close_mh' = IF close_mh = "held" THEN "replaced" ELSE close_mh
            /\ CancelCalls(Tasks \ {t})
       ELSE /\ pc' = SetPc(t, "connect_failed")
            /\ wsock' = Await(t, "none")
            /\ UNCHANGED <<connection_alive, reconnect_attempts, close_mh,
                           cancelled, self_processing_response>>
    /\ failed_attempts' = IF ok THEN 0 ELSE AttemptFailed(t)
    /\ lock' = NoThread
    /\ wire' = NoWrite
    /\ UNCHANGED websocket
    /\ UNCHANGED <<is_listening, processing_response, silence_counter, stream,
                   is_speaking, init_attempt>>
    /\ UNCHANGED cap_call
    /\ UNCHANGED <<finals, utterances, last_cb, spoken, closes, mark>>
    /\ UNCHANGED runVars
    /\ started_attempts' = IF ok THEN 0 ELSE started_attempts
    /\ UNCHANGED wait_time
    /\ UNCHANGED <<timer, last_msg, audio_age, open_sockets, svcVars, pa_return>>

(***************************************************************************)
(* STTService._handle_connection_error, lines 205-220, up to its sleep.    *)
(***************************************************************************)
GiveUpPc(t) == IF t = CAP THEN "loop" ELSE "done"

\* variant: the same wait before every attempt
WaitTimeFlat(n) == RECONNECT_DELAY

\* the backoff wait of attempt n, line 211
WaitTime(n) == RECONNECT_DELAY * n

\* variant: the last of the MAX_RECONNECT_ATTEMPTS attempts is never made
HandleConnectionErrorOneShort(t) ==
    /\ connection_alive' = FALSE
    /\ IF reconnect_attempts < MAX_RECONNECT_ATTEMPTS - 1
       THEN /\ reconnect_attempts' = reconnect_attempts + 1
            /\ wait_time' = WaitTime(reconnect_attempts + 1)
            /\ started_attempts' = started_attempts + 1
            /\ pc' = SetPc(t, "backoff")
       ELSE /\ reconnect_attempts' = reconnect_attempts
            /\ UNCHANGED backoffVars
            /\ pc' = SetPc(t, GiveUpPc(t))

\* variant: the handler without connection_alive.clear() (line 207)
HandleConnectionErrorAliveKept(t) ==
    /\ connection_alive' = connection_alive
    /\ IF reconnect_attempts < MAX_RECONNECT_ATTEMPTS
       THEN /\ reconnect_attempts' = reconnect_attempts + 1
            /\ wait_time' = WaitTime(reconnect_attempts + 1)
            /\ started_attempts' = started_attempts + 1
            /\ pc' = SetPc(t, "backoff")
       ELSE /\ reconnect_attempts' = reconnect_attempts
            /\ UNCHANGED backoffVars
            /\ pc' = SetPc(t, GiveUpPc(t))

\* variant: the test of line 209 with <= for <
HandleConnectionErrorOneMore(t) ==
    /\ connection_alive' = FALSE
    /\ IF reconnect_attempts <= MAX_RECONNECT_ATTEMPTS
       THEN /\ reconnect_attempts' = reconnect_attempts + 1
            /\ wait_time' = WaitTime(reconnect_attempts + 1)
            /\ started_attempts' = started_attempts + 1
            /\ pc' = SetPc(t, "backoff")
       ELSE /\ reconnect_attempts' = reconnect_attempts
            /\ UNCHANGED backoffVars
            /\ pc' = SetPc(t, GiveUpPc(t))

HandleConnectionError(t) ==
    /\ connection_alive' = FALSE
    /\ IF reconnect_attempts < MAX_RECONNECT_ATTEMPTS
       THEN /\ reconnect_attempts' = reconnect_attempts + 1
            /\ wait_time' = WaitTime(reconnect_attempts + 1)
            /\ started_attempts' = started_attempts + 1
            /\ pc' = SetPc(t, "backoff")
       ELSE /\ reconnect_attempts' = reconnect_attempts
            /\ UNCHANGED backoffVars
            /\ pc' = SetPc(t, GiveUpPc(t))

(***************************************************************************)
(* The receiver's loop head, lines 117-127: where _handle_messages         *)
(* suspends next.                                                          *)
(***************************************************************************)
RecvTopPc ==
    IF ~connection_alive THEN "done"
    ELSE IF websocket \in {"none", "closed"} THEN "nap"
    ELSE "recv"

GoRecvTop(t) ==
    /\ pc' = SetPc(t, RecvTopPc)
    /\ wsock' = Await(t, IF RecvTopPc = "recv" THEN "current" ELSE "none")

\* _handle_connection_error after connect() returned True in process_audio
ReconnectOk ==
    /\ Turn(CAP)
    /\ pc[CAP] = "connected"
    /\ cap_call = "process_audio"
    /\ reconnect_attempts' = 0
    /\ pc' = SetPc(CAP, "loop")
    /\ cap_call' = "none"
    /\ wire' = NoWrite
    /\ UNCHANGED <<websocket, connection_alive, lock>>
    /\ UNCHANGED <<voiceVars, wsock, close_mh, obsVars>>
    /\ UNCHANGED <<runVars, failed_attempts>>
    /\ pa_return' = "False"
    /\ UNCHANGED <<timer, last_msg, audio_age, open_sockets, backoffVars, svcVars>>

\* _handle_connection_error after connect() returned False, and its caller
ReconnectFail(t) ==
    /\ Turn(t)
    /\ pc[t] = "connect_failed"
    /\ ~(t = CAP /\ cap_call = "initialize")
    /\ IF t = KEEP
       THEN pc' = SetPc(t, "done") /\ wsock' = wsock
       ELSE IF t = CAP
       THEN pc' = SetPc(t, "loop") /\ wsock' = wsock
       ELSE GoRecvTop(t)
    /\ cap_call' = IF t = CAP THEN "none" ELSE cap_call
    /\ wire' = NoWrite
    /\ UNCHANGED <<sttVars, voiceVars, close_mh, obsVars>>
    /\ UNCHANGED <<runVars, failed_attempts>>
    /\ pa_return' = IF t = CAP THEN "False" ELSE pa_return
    /\ UNCHANGED <<timer, last_msg, audio_age, open_sockets, backoffVars, svcVars>>

(***************************************************************************)
(* VoiceMode.handle_conversation, lines 102-181.                           *)
(***************************************************************************)
\* lines 104-112: stream = None, is_listening = True, the first
\* STTService.initialize
ConvStart ==
    /\ Turn(CAP)
    /\ pc[CAP] = "conversation"
    /\ stream' = "none"
    /\ is_listening' = TRUE
    /\ init_attempt' = 0
    /\ cap_call' = "initialize"
    /\ pc' = SetPc(CAP, "connect")
    /\ wire' = NoWrite
    /\ UNCHANGED <<sttVars, processing_response, self_processing_response,
                   silence_counter, is_speaking, wsock, close_mh, obsVars>>
    /\ UNCHANGED <<runVars, failed_attempts>>
    /\ UNCHANGED auxVars

\* initialize returned True (stt_service.py 30-32); get_input_stream; the
\* greeting of line 132, which plays unless speak() caught a TTS failure
InitOk(stream_ok, tts_ok) ==
    /\ Turn(CAP)
    /\ pc[CAP] = "connected"
    /\ cap_call = "initialize"
    /\ reconnect_attempts' = 0
    /\ cap_call' = "none"
    /\ IF ~stream_ok
       THEN /\ pc' = SetPc(CAP, "finally")
            /\ UNCHANGED <<stream, is_speaking, silence_counter, processing_response>>
       ELSE /\ stream' = "open"
            /\ IF tts_ok
               THEN /\ is_speaking' = TRUE
                    /\ pc' = SetPc(CAP, "greeting")
                    /\ UNCHANGED <<silence_counter, processing_response>>
               ELSE /\ is_speaking' = is_speaking
                    /\ silence_counter' = 0
                    /\ processing_response' = FALSE
                    /\ pc' = SetPc(CAP, "iter")
    /\ init_attempt' = 0
    /\ wire' = NoWrite
    /\ UNCHANGED <<websocket, connection_alive, lock>>
    /\ UNCHANGED <<is_listening, self_processing_response>>
    /\ UNCHANGED <<wsock, close_mh, obsVars>>
    /\ UNCHANGED <<runVars, failed_attempts>>
    /\ UNCHANGED auxVars

\* variant: one more attempt than init_attempts
InitFailFourAttempts ==
    /\ Turn(CAP)
    /\ pc[CAP] = "connect_failed"
    /\ cap_call = "initialize"
    /\ IF init_attempt < INIT_ATTEMPTS
       THEN /\ init_attempt' = init_attempt + 1
            /\ pc' = SetPc(CAP, "init_sleep")
            /\ cap_call' = cap_call
       ELSE /\ init_attempt' = 0
            /\ pc' = SetPc(CAP, "finally")
            /\ cap_call' = "none"
    /\ wire' = NoWrite
    /\ UNCHANGED <<sttVars, is_listening, processing_response,
                   self_processing_response, silence_counter, stream, is_speaking>>
    /\ UNCHANGED <<wsock, close_mh, obsVars>>
    /\ UNCHANGED <<runVars, failed_attempts>>
    /\ UNCHANGED auxVars

\* initialize returned False: lines 114-119
InitFail ==
    /\ Turn(CAP)
    /\ pc[CAP] = "connect_failed"
    /\ cap_call = "initialize"
    /\ IF init_attempt < INIT_ATTEMPTS - 1
       THEN /\ init_attempt' = init_attempt + 1
            /\ pc' = SetPc(CAP, "init_sleep")
            /\ cap_call' = cap_call
       ELSE /\ init_attempt' = 0
            /\ pc' = SetPc(CAP, "finally")
            /\ cap_call' = "none"
    /\ wire' = NoWrite
    /\ UNCHANGED <<sttVars, is_listening, processing_response,
                   self_processing_response, silence_counter, stream, is_speaking>>
    /\ UNCHANGED <<wsock, close_mh, obsVars>>
    /\ UNCHANGED <<runVars, failed_attempts>>
    /\ UNCHANGED auxVars

\* variant: process_audio without the connection_alive test of line 181
ProcessAudioResultNoAliveTest(send_ok) ==
    IF websocket \in {"none", "closed"} THEN "closed"
    ELSE IF ~send_ok THEN "error"
    ELSE IF websocket = "open" THEN "sent"
    ELSE "closed"

\* STTService.process_audio, lines 179-203: what becomes of the frame
ProcessAudioResult(send_ok) ==
    IF ~connection_alive THEN "down"
    ELSE IF websocket \in {"none", "closed"} THEN "closed"
    ELSE IF ~send_ok THEN "error"
    ELSE IF websocket = "open" THEN "sent"
    ELSE "closed"

\* variant: True after a reconnect attempt was started
ProcessAudioReturnHopeful(result) ==
    IF result = "sent" THEN "True"
    ELSE IF result = "error" THEN "False"
    ELSE IF reconnect_attempts < MAX_RECONNECT_ATTEMPTS THEN "True"
    ELSE "False"

\* what process_audio returns, lines 184-203, when it does not wait in
\* _handle_connection_error first
ProcessAudioReturn(result) ==
    IF result = "sent" THEN "True"
    ELSE IF result = "error" THEN "False"
    ELSE IF reconnect_attempts < MAX_RECONNECT_ATTEMPTS THEN "pending"
    ELSE "False"

\* the silence accounting of lines 152-155
CountSilence(level, counter) == IF level > SILENCE_LEVEL THEN 0 ELSE counter + 1

\* variant: the limit reached one frame early
SilenceReachedOffByOne(counter) == counter >= SILENCE_FRAMES

\* the turn-end test of line 157
SilenceReached(counter) == counter > SILENCE_FRAMES

\* the test of line 140: the loop reads its local, never the attribute
SendsFiller == processing_response

\* one iteration of the capture loop, lines 137-172.  f is what stream.read
\* gives, send_ok whether websocket.send raises something other than
\* ConnectionClosed
CaptureIter(f, send_ok) ==
    /\ Turn(CAP)
    /\ pc[CAP] \in {"iter", "loop"}
    /\ f.tag = 1 => ~mark.handed /\ ~SendsFiller
    /\ LET filler == SendsFiller
           frame == IF filler THEN FillerFrame ELSE f
           count == IF filler \/ f = ReadError THEN silence_counter
                    ELSE CountSilence(AudioLevel(f), silence_counter)
           stop == \/ ~is_listening
                   \/ ~filler /\ (f = ReadError \/ SilenceReached(count))
           result == ProcessAudioResult(send_ok)
       IN IF stop
          THEN /\ pc' = SetPc(CAP, "finally")
               /\ silence_counter' = IF is_listening THEN count ELSE silence_counter
               /\ is_listening' = IF is_listening /\ ~filler /\ f # ReadError
                                  THEN FALSE ELSE is_listening
               /\ wire' = NoWrite
               /\ UNCHANGED <<connection_alive, reconnect_attempts, cap_call, mark>>
               /\ UNCHANGED <<audio_age, backoffVars>>
               /\ pa_return' = "none"
          ELSE /\ silence_counter' = count
               /\ is_listening' = is_listening
               /\ wire' = IF result = "sent" THEN frame.kind ELSE NoWrite
               /\ audio_age' = IF result = "sent" THEN 0 ELSE audio_age
               /\ pa_return' = ProcessAudioReturn(result)
               /\ mark' = IF frame.tag = 1
                          THEN [handed |-> TRUE, down |-> ~connection_alive,
                                sent |-> result = "sent", later |-> FALSE]
                          ELSE IF mark.handed /\ frame.kind = "mic" /\ result = "sent"
                          THEN [mark EXCEPT !.later = TRUE]
                          ELSE mark
               /\ IF result \in {"sent", "error"}
                  THEN /\ pc' = SetPc(CAP, "loop")
                       /\ UNCHANGED <<connection_alive, reconnect_attempts, cap_call>>
                       /\ UNCHANGED backoffVars
                  ELSE /\ HandleConnectionError(CAP)
                       /\ cap_call' = IF reconnect_attempts < MAX_RECONNECT_ATTEMPTS
                                      THEN "process_audio" ELSE cap_call
    /\ UNCHANGED <<websocket, lock>>
    /\ UNCHANGED <<processing_response, self_processing_response, stream,
                   is_speaking, init_attempt>>
    /\ UNCHANGED <<wsock, close_mh>>
    /\ UNCHANGED <<finals, utterances, last_cb, spoken, cancelled, closes>>
    /\ UNCHANGED <<runVars, failed_attempts>>
    /\ UNCHANGED <<timer, last_msg, open_sockets, svcVars>>

(***************************************************************************)
(* The finally of handle_conversation (lines 176-181) and STTService.close *)
(* (lines 238-255).                                                        *)
(***************************************************************************)
\* variant: cleanup_connection without the test of line 224
AfterKeepalivePcNoSocketTest(mh_live) ==
    IF mh_live THEN "close_mh" ELSE "close_ws"

\* where close() suspends next, once it is done with the keepalive task
AfterKeepalivePc(mh_live) ==
    IF mh_live THEN "close_mh"
    ELSE IF websocket # "none" THEN "close_ws"
    ELSE "done"

Finally ==
    /\ Turn(CAP)
    /\ pc[CAP] = "finally"
    /\ is_listening' = FALSE
    /\ stream' = IF stream = "open" THEN "closed" ELSE stream
    /\ closes' = <<closes[1] + (IF stream = "open" THEN 1 ELSE 0), closes[2] + 1>>
    /\ connection_alive' = FALSE
    /\ close_mh' = IF message_handler_task # "none" THEN "held" ELSE "none"
    /\ LET C == IF Live(KEEP) THEN {KEEP}
                ELSE IF Live(RECV) THEN {RECV} ELSE {}
       IN /\ pc' = [CancelPc(C) EXCEPT
                       ![CAP] = IF Live(KEEP) THEN "close_ka"
                                ELSE AfterKeepalivePc(Live(RECV))]
          /\ wsock' = CancelAwait(C)
          /\ lock' = IF lock \in C THEN NoThread ELSE lock
          /\ CancelCalls(C)
    /\ wire' = NoWrite
    /\ UNCHANGED <<websocket, reconnect_attempts>>
    /\ UNCHANGED <<processing_response, silence_counter, is_speaking, init_attempt>>
    /\ UNCHANGED cap_call
    /\ UNCHANGED <<finals, utterances, last_cb, spoken, mark>>
    /\ UNCHANGED <<runVars, failed_attempts>>
    /\ UNCHANGED auxVars

\* close() resumes after the keepalive task ended: the receiver task
CloseKa ==
    /\ Turn(CAP)
    /\ pc[CAP] = "close_ka"
    /\ LET live == close_mh = "held" /\ Live(RECV)
           C == IF live THEN {RECV} ELSE {}
       IN /\ pc' = [CancelPc(C) EXCEPT ![CAP] = AfterKeepalivePc(live)]
          /\ wsock' = CancelAwait(C)
          /\ lock' = IF lock \in C THEN NoThread ELSE lock
          /\ CancelCalls(C)
          /\ connection_alive' =
                 IF AfterKeepalivePc(live) = "done" THEN FALSE ELSE connection_alive
    /\ wire' = NoWrite
    /\ UNCHANGED <<websocket, reconnect_attempts>>
    /\ UNCHANGED <<is_listening, processing_response, silence_counter, stream,
                   is_speaking, init_attempt>>
    /\ UNCHANGED <<cap_call, close_mh>>
    /\ UNCHANGED <<finals, utterances, last_cb, spoken, closes, mark>>
    /\ UNCHANGED <<runVars, failed_attempts>>
    /\ UNCHANGED auxVars

\* close() resumes after the receiver task ended: cleanup_connection
CloseMh ==
    /\ Turn(CAP)
    /\ pc[CAP] = "close_mh"
    /\ pc' = SetPc(CAP, IF websocket # "none" THEN "close_ws" ELSE "done")
    /\ connection_alive' = IF websocket # "none" THEN connection_alive ELSE FALSE
    /\ wire' = NoWrite
    /\ UNCHANGED <<websocket, reconnect_attempts, lock>>
    /\ UNCHANGED <<voiceVars, wsock, cap_call, close_mh, obsVars>>
    /\ UNCHANGED <<runVars, failed_attempts>>
    /\ UNCHANGED auxVars

CloseWs ==
    /\ Turn(CAP)
    /\ pc[CAP] = "close_ws"
    /\ CleanupConnection
    /\ pc' = SetPc(CAP, "done")
    /\ UNCHANGED <<reconnect_attempts, lock>>
    /\ UNCHANGED <<voiceVars, cap_call, close_mh, obsVars>>
    /\ UNCHANGED <<runVars, failed_attempts>>
    /\ UNCHANGED <<timer, last_msg, audio_age, backoffVars, svcVars, pa_return>>

(***************************************************************************)
(* The receiver task: STTService._handle_messages (lines 114-143),         *)
(* _process_message, _handle_transcript_result and the callback            *)
(* VoiceMode._handle_transcript (voice_mode.py 183-206).                   *)
(***************************************************************************)
\* the task's first run, or the wake-up from _check_connection's sleep
RecvLoop ==
    /\ Turn(RECV)
    /\ pc[RECV] \in {"start", "nap"}
    /\ GoRecvTop(RECV)
    /\ wire' = NoWrite
    /\ UNCHANGED <<sttVars, voiceVars, cap_call, close_mh, obsVars>>
    /\ UNCHANGED <<runVars, failed_attempts>>
    /\ UNCHANGED auxVars

\* variant: every Results message reported as final
CallbackArgAllFinal(m) ==
    IF m.json /\ m.type = "Results" /\ m.alternatives # <<>>
          /\ Strip(m.alternatives[1].transcript) # <<>>
    THEN [transcript |-> Strip(m.alternatives[1].transcript),
          is_final |-> TRUE, set |-> TRUE]
    ELSE NoCallback

\* variant: _process_message without the type test of line 157
CallbackArgAnyType(m) ==
    IF m.json /\ m.alternatives # <<>>
          /\ Strip(m.alternatives[1].transcript) # <<>>
    THEN [transcript |-> Strip(m.alternatives[1].transcript),
          is_final |-> m.is_final, set |-> TRUE]
    ELSE NoCallback

\* _process_message (152-162) and _handle_transcript_result (164-177): the
\* argument of the callback, NoCallback when the callback is not invoked
CallbackArg(m) ==
    IF m.json /\ m.type = "Results" /\ m.alternatives # <<>>
          /\ Strip(m.alternatives[1].transcript) # <<>>
    THEN [transcript |-> Strip(m.alternatives[1].transcript),
          is_final |-> m.is_final, set |-> TRUE]
    ELSE NoCallback

\* variant: the callback without the is_final test of line 187
HandsAnyTranscript(cb) == cb.set /\ Strip(cb.transcript) # <<>>

\* VoiceMode._handle_transcript, lines 187-196: whether the callback hands
\* its transcript to AidaAssistant.process_input
HandsToLLM(cb) == cb.set /\ cb.is_final /\ Strip(cb.transcript) # <<>>

\* the transcript text of a Results message as it came in
Fragment(m) ==
    IF m.alternatives # <<>> THEN m.alternatives[1].transcript ELSE <<>>

\* recv() returns message m
RecvMsg(m) ==
    /\ Turn(RECV)
    /\ pc[RECV] = "recv"
    /\ wsock[RECV] = "current"
    /\ websocket = "open"
    /\ IsFinalResults(m) => Len(finals) < MaxFinals
    /\ finals' = IF IsFinalResults(m) THEN Append(finals, Fragment(m)) ELSE finals
    /\ LET cb == CallbackArg(m)
       IN /\ last_cb' = IF cb.set THEN cb ELSE last_cb
          /\ IF HandsToLLM(cb)
             THEN /\ self_processing_response' = TRUE
                  /\ utterances' = Append(utterances, Strip(cb.transcript))
                  /\ pc' = SetPc(RECV, "llm")
                  /\ wsock' = Await(RECV, "none")
             ELSE /\ GoRecvTop(RECV)
                  /\ UNCHANGED <<self_processing_response, utterances>>
    /\ wire' = NoWrite
    /\ UNCHANGED <<sttVars, is_listening, processing_response, silence_counter,
                   stream, is_speaking, init_attempt, cap_call, close_mh>>
    /\ UNCHANGED <<spoken, cancelled, closes, mark>>
    /\ UNCHANGED <<runVars, failed_attempts>>
    /\ last_msg' = MsgKind(m)
    /\ UNCHANGED <<timer, audio_age, open_sockets, backoffVars, svcVars, pa_return>>

\* recv() raises ConnectionClosed, lines 131-133
RecvClosed ==
    /\ Turn(RECV)
    /\ pc[RECV] = "recv"
    /\ ~(wsock[RECV] = "current" /\ websocket = "open")
    /\ HandleConnectionError(RECV)
    /\ wsock' = Await(RECV, "none")
    /\ wire' = NoWrite
    /\ UNCHANGED <<websocket, lock>>
    /\ UNCHANGED <<voiceVars, cap_call, close_mh, obsVars>>
    /\ UNCHANGED <<runVars, failed_attempts>>
    /\ UNCHANGED <<timer, last_msg, audio_age, open_sockets, svcVars, pa_return>>

\* recv() raises another exception, lines 136-138: it is logged and the
\* loop goes on after sleep(0.1)
RecvError ==
    /\ Turn(RECV)
    /\ pc[RECV] = "recv"
    /\ pc' = SetPc(RECV, "nap")
    /\ wsock' = Await(RECV, "none")
    /\ wire' = NoWrite
    /\ UNCHANGED <<sttVars, voiceVars, cap_call, close_mh, obsVars>>
    /\ UNCHANGED <<runVars, failed_attempts>>
    /\ UNCHANGED auxVars

\* process_input returned (core/assistant.py 24-91: always a non-empty
\* string, the reply or an apology); speak(response), voice_mode.py 197-199
LlmDone(tts_ok) ==
    /\ Turn(RECV)
    /\ pc[RECV] = "llm"
    /\ spoken' = spoken + 1
    /\ IF tts_ok
       THEN /\ is_speaking' = TRUE
            /\ pc' = SetPc(RECV, "playing")
            /\ UNCHANGED <<self_processing_response, wsock>>
       ELSE /\ is_speaking' = is_speaking
            /\ self_processing_response' = FALSE
            /\ GoRecvTop(RECV)
    /\ wire' = NoWrite
    /\ UNCHANGED <<sttVars, is_listening, processing_response, silence_counter,
                   stream, init_attempt, cap_call, close_mh>>
    /\ UNCHANGED <<finals, utterances, last_cb, cancelled, closes, mark>>
    /\ UNCHANGED <<runVars, failed_attempts>>
    /\ UNCHANGED auxVars

\* elevenlabs' stream() returns: play_audio_stream's finally clears
\* is_speaking (audio_manager.py 53-54); the caller goes on
PlayEnd(t) ==
    /\ pc[t] \in BlockingPlayback
    /\ Turn(t)
    /\ is_speaking' = FALSE
    /\ IF t = CAP
       THEN /\ silence_counter' = 0
            /\ processing_response' = FALSE
            /\ pc' = SetPc(t, "iter")
            /\ UNCHANGED <<self_processing_response, wsock>>
       ELSE /\ self_processing_response' = FALSE
            /\ GoRecvTop(t)
            /\ UNCHANGED <<silence_counter, processing_response>>
    /\ wire' = NoWrite
    /\ UNCHANGED <<sttVars, is_listening, stream, init_attempt, cap_call,
                   close_mh, obsVars>>
    /\ UNCHANGED <<runVars, failed_attempts>>
    /\ UNCHANGED auxVars

(***************************************************************************)
(* The keepalive task: STTService._keep_alive, lines 89-112.               *)
(***************************************************************************)
\* the loop head: the task's first run, or the wake-up from sleep(5)
KeepLoop ==
    /\ Turn(KEEP)
    /\ pc[KEEP] \in {"start", "sleep"}
    /\ IF ~connection_alive
       THEN pc' = SetPc(KEEP, "done") /\ wsock' = wsock
       ELSE IF websocket \notin {"none", "closed"}
       THEN pc' = SetPc(KEEP, "ping") /\ wsock' = Await(KEEP, "current")
       ELSE pc' = SetPc(KEEP, "sleep") /\ wsock' = wsock
    /\ wire' = NoWrite
    /\ UNCHANGED <<sttVars, voiceVars, cap_call, close_mh, obsVars>>
    /\ UNCHANGED <<runVars, failed_attempts>>
    /\ UNCHANGED auxVars

\* the pong wait ended; idle is `time.time() - self._last_audio_time > 5`
KeepPong(ok, idle) ==
    /\ Turn(KEEP)
    /\ pc[KEEP] = "ping"
    /\ ok => wsock[KEEP] = "current" /\ websocket = "open"
    /\ IF ok
       THEN /\ wire' = IF idle THEN "KeepAlive" ELSE NoWrite
            /\ pc' = SetPc(KEEP, "sleep")
            /\ UNCHANGED <<connection_alive, reconnect_attempts>>
            /\ UNCHANGED backoffVars
       ELSE /\ wire' = NoWrite
            /\ HandleConnectionError(KEEP)
    /\ wsock' = Await(KEEP, "none")
    /\ UNCHANGED <<websocket, lock>>
    /\ UNCHANGED <<voiceVars, cap_call, close_mh, obsVars>>
    /\ UNCHANGED <<runVars, failed_attempts>>
    /\ UNCHANGED <<timer, last_msg, audio_age, open_sockets, svcVars, pa_return>>

(***************************************************************************)
(* The network: the remote end or the link takes the socket down.          *)
(***************************************************************************)
SockFail(to) ==
    /\ websocket \in {"open", "closing"}
    /\ websocket = "closing" => to = "closed"
    /\ websocket' = to
    /\ wire' = NoWrite
    /\ UNCHANGED <<connection_alive, reconnect_attempts, lock>>
    /\ UNCHANGED <<voiceVars, coVars, obsVars>>
    /\ UNCHANGED <<runVars, failed_attempts>>
    /\ open_sockets' = IF to = "closed" THEN open_sockets - 1 ELSE open_sockets
    /\ UNCHANGED <<timer, last_msg, audio_age, backoffVars, svcVars, pa_return>>

(***************************************************************************)
(* VoiceMode.run (lines 28-59), listen_for_wake_word (lines 61-100),       *)
(* VoiceMode.cleanup (lines 222-229) and main (main.py 53-60).             *)
(***************************************************************************)
\* VoiceMode.__init__, STTService.__init__: run() has not started
InitRun ==
    /\ websocket = "none"
    /\ connection_alive = FALSE
    /\ reconnect_attempts = 0
    /\ lock = NoThread
    /\ is_listening = FALSE
    /\ processing_response = FALSE
    /\ self_processing_response = FALSE
    /\ silence_counter = 0
    /\ stream = "none"
    /\ is_speaking = FALSE
    /\ init_attempt = 0
    /\ pc = [t \in Threads |-> IF t = CAP THEN "run" ELSE "none"]
    /\ wsock = [t \in Threads |-> "none"]
    /\ cap_call = "none"
    /\ close_mh = "none"
    /\ wire = NoWrite
    /\ finals = <<>>
    /\ utterances = <<>>
    /\ last_cb = NoCallback
    /\ spoken = 0
    /\ cancelled = 0
    /\ closes = <<0, 0>>
    /\ mark = NoMark
    /\ failed_attempts = 0
    /\ shutdown_event = FALSE
    /\ porcupine = FALSE
    /\ listened = "none"
    /\ interrupted = FALSE
    /\ cycles = 0
    /\ InitAux

\* lines 30-42: init_playback (it catches its own errors), then
\* WakeWordDetector.initialize; False ends run()
RunStart(wake_ok) ==
    /\ pc[CAP] = "run"
    /\ porcupine' = wake_ok
    /\ pc' = SetPc(CAP, IF wake_ok THEN "wake" ELSE "run_done")
    /\ wire' = NoWrite
    /\ UNCHANGED <<sttVars, voiceVars, wsock, cap_call, close_mh, obsVars>>
    /\ UNCHANGED <<failed_attempts, shutdown_event, listened, interrupted, cycles>>
    /\ UNCHANGED auxVars

\* how listen_for_wake_word ends: initialize returned False (65-67), no
\* input stream (80-82), the keyword found (91-93), a frame could not be
\* read (94-96), or closing the stream raised (97-100)
ListenOutcomes == {"init_failed", "no_stream", "detected", "read_error", "close_error"}

\* what run() does once listen_for_wake_word is over: the function returns
\* None on every path and line 52 follows; an exception goes to line 54
AfterListenPc(outcome) == IF outcome = "close_error" THEN "run_sleep" ELSE "conversation"

\* one pass of the loop of run() up to line 52: the test of line 44 and
\* listen_for_wake_word, which has no await and reads the microphone in a
\* blocking loop
ListenForWakeWord(outcome) ==
    /\ Turn(CAP)
    /\ pc[CAP] = "wake"
    /\ IF shutdown_event
       THEN /\ pc' = SetPc(CAP, "run_done")
            /\ UNCHANGED <<porcupine, listened, cycles>>
       ELSE /\ cycles < MaxCycles
            /\ cycles' = cycles + 1
            /\ porcupine' = IF outcome = "init_failed" THEN porcupine ELSE TRUE
            /\ listened' = outcome
            /\ pc' = SetPc(CAP, AfterListenPc(outcome))
    /\ wire' = NoWrite
    /\ UNCHANGED <<sttVars, voiceVars, wsock, cap_call, close_mh, obsVars>>
    /\ UNCHANGED <<failed_attempts, shutdown_event, interrupted>>
    /\ UNCHANGED auxVars

\* handle_conversation returned: back to the test of line 44
ConversationReturns ==
    /\ Turn(CAP)
    /\ pc[CAP] = "done"
    /\ cap_call # "cleanup"
    /\ ~interrupted
    /\ pc' = SetPc(CAP, "wake")
    /\ wire' = NoWrite
    /\ UNCHANGED <<sttVars, voiceVars, wsock, cap_call, close_mh, obsVars>>
    /\ UNCHANGED <<runVars, failed_attempts>>
    /\ UNCHANGED auxVars

\* variant: the loop of run() without the handler of lines 54-56
FinallyRaisesEscapes ==
    /\ Turn(CAP)
    /\ pc[CAP] = "finally"
    /\ stream = "open"
    /\ is_listening' = FALSE
    /\ pc' = SetPc(CAP, "run_done")
    /\ wire' = NoWrite
    /\ UNCHANGED <<sttVars, processing_response, self_processing_response,
                   silence_counter, stream, is_speaking, init_attempt>>
    /\ UNCHANGED <<wsock, cap_call, close_mh, obsVars>>
    /\ UNCHANGED <<runVars, failed_attempts>>
    /\ UNCHANGED auxVars

\* the finally of handle_conversation when stream.stop_stream() raises
\* (lines 177-179): close() is not reached and the exception goes to the
\* handler of run(), lines 54-56
FinallyRaises ==
    /\ Turn(CAP)
    /\ pc[CAP] = "finally"
    /\ stream = "open"
    /\ is_listening' = FALSE
    /\ pc' = SetPc(CAP, IF interrupted THEN "run_done" ELSE "run_sleep")
    /\ wire' = NoWrite
    /\ UNCHANGED <<sttVars, processing_response, self_processing_response,
                   silence_counter, stream, is_speaking, init_attempt>>
    /\ UNCHANGED <<wsock, cap_call, close_mh, obsVars>>
    /\ UNCHANGED <<runVars, failed_attempts>>
    /\ UNCHANGED auxVars

\* the sleep(1) of line 56 is over: back to the test of line 44
RunSleepEnd ==
    /\ Turn(CAP)
    /\ pc[CAP] = "run_sleep"
    /\ pc' = SetPc(CAP, "wake")
    /\ wire' = NoWrite
    /\ UNCHANGED <<sttVars, voiceVars, wsock, cap_call, close_mh, obsVars>>
    /\ UNCHANGED <<runVars, failed_attempts>>
    /\ UNCHANGED auxVars

\* the main task is cancelled (Ctrl-C) while it sleeps in the capture loop
\* (lines 165, 168) or at line 56: CancelledError is no Exception, so the
\* handlers of lines 170, 174 and 54 let it through; the finally of
\* handle_conversation runs
Interrupt ==
    /\ Turn(CAP)
    /\ pc[CAP] \in {"loop", "run_sleep"}
    /\ ~interrupted
    /\ interrupted' = TRUE
    /\ pc' = SetPc(CAP, IF pc[CAP] = "loop" THEN "finally" ELSE "run_done")
    /\ wire' = NoWrite
    /\ UNCHANGED <<sttVars, voiceVars, wsock, cap_call, close_mh, obsVars>>
    /\ UNCHANGED <<failed_attempts, shutdown_event, porcupine, listened, cycles>>
    /\ UNCHANGED auxVars

\* the finally of handle_conversation is over and CancelledError leaves
\* run(): main's finally is next (main.py 59-60)
RunAborted ==
    /\ Turn(CAP)
    /\ pc[CAP] = "done"
    /\ cap_call # "cleanup"
    /\ interrupted
    /\ pc' = SetPc(CAP, "run_done")
    /\ wire' = NoWrite
    /\ UNCHANGED <<sttVars, voiceVars, wsock, cap_call, close_mh, obsVars>>
    /\ UNCHANGED <<runVars, failed_attempts>>
    /\ UNCHANGED auxVars

\* VoiceMode.cleanup, lines 222-229, called by main once run() is over:
\* shutdown_event.set(), WakeWordDetector.cleanup and STTService.close up
\* to its first suspension (stt_service.py 238-250)
Cleanup ==
    /\ Turn(CAP)
    /\ pc[CAP] = "run_done"
    /\ cap_call # "cleanup"
    /\ shutdown_event' = TRUE
    /\ porcupine' = FALSE
    /\ cap_call' = "cleanup"
    /\ closes' = <<closes[1], closes[2] + 1>>
    /\ connection_alive' = FALSE
    /\ close_mh' = IF message_handler_task # "none" THEN "held" ELSE "none"
    /\ LET C == IF Live(KEEP) THEN {KEEP}
                ELSE IF Live(RECV) THEN {RECV} ELSE {}
       IN /\ pc' = [CancelPc(C) EXCEPT
                       ![CAP] = IF Live(KEEP) THEN "close_ka"
                                ELSE AfterKeepalivePc(Live(RECV))]
          /\ wsock' = CancelAwait(C)
          /\ lock' = IF lock \in C THEN NoThread ELSE lock
          /\ CancelCalls(C)
    /\ wire' = NoWrite
    /\ UNCHANGED <<websocket, reconnect_attempts>>
    /\ UNCHANGED <<is_listening, processing_response, silence_counter, stream,
                   is_speaking, init_attempt>>
    /\ UNCHANGED <<finals, utterances, last_cb, spoken, mark>>
    /\ UNCHANGED <<failed_attempts, listened, interrupted, cycles>>
    /\ timer' = "stopped"
    /\ UNCHANGED <<last_msg, audio_age, open_sockets, backoffVars, svcVars, pa_return>>

(***************************************************************************)
(* Specifications.                                                         *)
(***************************************************************************)
\* messages of the session specification
Messages == {Results(TRUE, TextA)}

\* The session under network faults: the socket fails, connects fail, the
\* microphone delivers speech and the turn ends by a read error.
Next ==
    \/ ConvStart
    \/ \E t \in Threads : ConnectBegin(t)
    \/ \E t \in Threads : ConnectCleanup(t)
    \/ \E t \in Threads, ok \in BOOLEAN : ConnectOpen(t, ok)
    \/ \E t \in Threads, ok \in BOOLEAN : ConnectVerify(t, ok)
    \/ \E stream_ok \in BOOLEAN, tts_ok \in BOOLEAN : InitOk(stream_ok, tts_ok)
    \/ InitFail
    \/ ReconnectOk
    \/ \E t \in Threads : ReconnectFail(t)
    \/ \E f \in LoudFrames \cup {ReadError} : CaptureIter(f, TRUE)
    \/ Finally
    \/ CloseKa
    \/ CloseMh
    \/ CloseWs
    \/ RecvLoop
    \/ \E m \in Messages : RecvMsg(m)
    \/ RecvClosed
    \/ LlmDone(TRUE)
    \/ \E t \in Threads : PlayEnd(t)
    \/ KeepLoop
    \/ \E ok \in BOOLEAN, idle \in BOOLEAN : KeepPong(ok, idle)
    \/ \E to \in {"closing", "closed"} : SockFail(to)

Spec == Init /\ [][Next]_vars

\* messages of the silence specification: a final transcript and the remote
\* end-of-utterance signal that utterance_end_ms asks for (settings.py 56)
SilenceMessages == {Results(TRUE, TextA), Control("UtteranceEnd")}

\* The session on a healthy network: the microphone delivers quiet and loud
\* frames and the turn ends by the silence limit.
NextSilence ==
    \/ ConvStart
    \/ ConnectBegin(CAP)
    \/ ConnectOpen(CAP, TRUE)
    \/ ConnectVerify(CAP, TRUE)
    \/ InitOk(TRUE, TRUE)
    \/ \E f \in QuietFrames \cup LoudFrames : CaptureIter(f, TRUE)
    \/ Finally
    \/ CloseKa
    \/ CloseMh
    \/ CloseWs
    \/ RecvLoop
    \/ \E m \in SilenceMessages : RecvMsg(m)
    \/ LlmDone(TRUE)
    \/ \E t \in Threads : PlayEnd(t)
    \/ KeepLoop
    \/ \E idle \in BOOLEAN : KeepPong(TRUE, idle)

SpecSilence == Init /\ [][NextSilence]_vars

\* messages of the segmentation specification: final and interim Results
\* with plain, padded, blank, empty and missing transcripts, a control
\* message and a message that is not JSON
SegmentMessages ==
    {Results(fin, text) : fin \in BOOLEAN, text \in {TextA, TextB, TextBlank, TextEmpty}}
        \cup {ResultsNoAlt(TRUE), ResultsNoAlt(FALSE), Control("UtteranceEnd"), Malformed}
        \cup {Control("Error"), Control("Warning"), Control("Metadata"),
              Other("Error", TextA)}

\* The session on a healthy network with every kind of inbound message; the
\* turn ends by a read error.
NextSegment ==
    \/ ConvStart
    \/ ConnectBegin(CAP)
    \/ ConnectOpen(CAP, TRUE)
    \/ ConnectVerify(CAP, TRUE)
    \/ InitOk(TRUE, TRUE)
    \/ \E f \in LoudFrames \cup {ReadError} : CaptureIter(f, TRUE)
    \/ Finally
    \/ CloseKa
    \/ CloseMh
    \/ CloseWs
    \/ RecvLoop
    \/ \E m \in SegmentMessages : RecvMsg(m)
    \/ \E tts_ok \in BOOLEAN : LlmDone(tts_ok)
    \/ \E t \in Threads : PlayEnd(t)
    \/ KeepLoop
    \/ \E idle \in BOOLEAN : KeepPong(TRUE, idle)

SpecSegment == Init /\ [][NextSegment]_vars

\* The session under network faults with no inbound traffic, where one of
\* the microphone frames is marked and followed through the client.
NextQueue ==
    \/ ConvStart
    \/ \E t \in Threads : ConnectBegin(t)
    \/ \E t \in Threads : ConnectCleanup(t)
    \/ \E t \in Threads, ok \in BOOLEAN : ConnectOpen(t, ok)
    \/ \E t \in Threads, ok \in BOOLEAN : ConnectVerify(t, ok)
    \/ InitOk(TRUE, TRUE)
    \/ InitFail
    \/ ReconnectOk
    \/ \E t \in Threads : ReconnectFail(t)
    \/ \E f \in LoudFrames \cup {MarkedFrame, ReadError}, send_ok \in BOOLEAN :
           CaptureIter(f, send_ok)
    \/ Finally
    \/ CloseKa
    \/ CloseMh
    \/ CloseWs
    \/ RecvLoop
    \/ RecvClosed
    \/ RecvError
    \/ PlayEnd(CAP)
    \/ KeepLoop
    \/ \E ok \in BOOLEAN, idle \in BOOLEAN : KeepPong(ok, idle)
    \/ \E to \in {"closing", "closed"} : SockFail(to)

SpecQueue == Init /\ [][NextQueue]_vars

\* The program from the start of run(): the wake-word detector and the
\* microphone fail, connects fail, closing a stream raises and the pong
\* wait fails; a turn ends by a read error.
NextRun ==
    \/ \E wake_ok \in BOOLEAN : RunStart(wake_ok)
    \/ \E outcome \in ListenOutcomes : ListenForWakeWord(outcome)
    \/ ConvStart
    \/ \E t \in Threads : ConnectBegin(t)
    \/ \E t \in Threads : ConnectCleanup(t)
    \/ \E t \in Threads, ok \in BOOLEAN : ConnectOpen(t, ok)
    \/ \E t \in Threads : ConnectVerify(t, TRUE)
    \/ \E stream_ok \in BOOLEAN : InitOk(stream_ok, TRUE)
    \/ InitFail
    \/ ReconnectOk
    \/ \E t \in Threads : ReconnectFail(t)
    \/ \E f \in LoudFrames \cup {ReadError} : CaptureIter(f, TRUE)
    \/ Finally
    \/ FinallyRaises
    \/ CloseKa
    \/ CloseMh
    \/ CloseWs
    \/ RecvLoop
    \/ RecvClosed
    \/ PlayEnd(CAP)
    \/ KeepLoop
    \/ \E ok \in BOOLEAN : KeepPong(ok, FALSE)
    \/ ConversationReturns
    \/ RunSleepEnd

SpecRun == InitRun /\ [][NextRun]_vars

\* The same program when the main task may be cancelled and main's finally
\* runs VoiceMode.cleanup.
NextShutdown ==
    \/ NextRun
    \/ Interrupt
    \/ RunAborted
    \/ Cleanup

SpecShutdown == InitRun /\ [][NextShutdown]_vars

(***************************************************************************)
(* AidaAssistant.process_input, core/assistant.py 24-91, and the storage   *)
(* task of _store_interaction_background, lines 93-118.  The session       *)
(* specifications take the call as one step (LlmDone); here it is followed *)
(* from await to await.                                                    *)
(***************************************************************************)
sessionVars == <<sttVars, voiceVars, coVars, wire, obsVars, failed_attempts,
                 runVars, timer, last_msg, audio_age, open_sockets, backoffVars,
                 pa_return>>
exceptAsst == <<sessionVars, memVars, cacheVars, tmVars, rqVars>>
exceptMem == <<sessionVars, asstVars, cacheVars, tmVars, rqVars>>
exceptCache == <<sessionVars, asstVars, memVars, tmVars, rqVars>>
exceptTimer == <<sessionVars, asstVars, memVars, cacheVars, rqVars>>
exceptRequest == <<sessionVars, asstVars, memVars, cacheVars, tmVars>>

\* the texts process_input returns in place of a reply, lines 63, 70, 91
TimeoutApology == <<"I apologize, but I'm taking longer than expected">>
EmptyApology == <<"I apologize, but I received an empty response">>
ErrorApology == <<"I apologize, but I encountered an error">>
Apologies == {TimeoutApology, EmptyApology, ErrorApology}

None == <<"None">>

\* what handle_message_with_tools can return: the text of the reply, plain,
\* padded, blank or empty, None, or its own apology (claude_service.py
\* 183-185, the text of line 91)
HandlerReturns == {TextA, TextB, TextBlank, TextEmpty, None, ErrorApology}
HandlerOutcomes == {"returns", "timeout", "raises"}
UserInputs == {TextA, TextB}

\* variant: the test of line 68 without its second half
EmptyResponseNoStrip(r) == r = None \/ r = <<>>

\* `not response or not response.strip()`, line 68
EmptyResponse(r) == r = None \/ r = <<>> \/ Strip(r) = <<>>

\* variant: the storage wait's timeout handled as the one of line 61
AfterStoreApology(outcome, r) == IF outcome = "timeout" THEN TimeoutApology ELSE r

\* what process_input returns once the storage wait is over, lines 75-86
AfterStore(outcome, r) == r

RemoveAt(seq, i) == SubSeq(seq, 1, i - 1) \o SubSeq(seq, i + 1, Len(seq))

\* process_input(text) is called, up to the wait for the context task
ProcessInput(text) ==
    /\ pi_pc \in {"idle", "returned"}
    /\ calls < MaxCalls
    /\ calls' = calls + 1
    /\ processing_complete' = FALSE
    /\ user_input' = text
    /\ handler_response' = NoText
    /\ response' = NoText
    /\ pi_pc' = "context"
    /\ UNCHANGED <<background_tasks, stored>>
    /\ UNCHANGED exceptAsst

\* the wait for the context ends, lines 32-39: with the context, by its
\* 3 s timeout (the call goes on without context), or by another exception
ContextDone(outcome) ==
    /\ pi_pc = "context"
    /\ IF outcome = "raises"
       THEN /\ processing_complete' = TRUE
            /\ response' = ErrorApology
            /\ pi_pc' = "returned"
       ELSE /\ pi_pc' = "claude"
            /\ UNCHANGED <<processing_complete, response>>
    /\ UNCHANGED <<user_input, handler_response, background_tasks, stored, calls>>
    /\ UNCHANGED exceptAsst

\* the wait for handle_message_with_tools ends, lines 51-74: it returned r,
\* its 60 s timeout passed, or it raised
HandlerDone(outcome, r) ==
    /\ pi_pc = "claude"
    /\ IF outcome = "timeout"
       THEN /\ response' = TimeoutApology
            /\ pi_pc' = "returned"
            /\ UNCHANGED <<handler_response, processing_complete>>
       ELSE IF outcome = "raises"
       THEN /\ processing_complete' = TRUE
            /\ response' = ErrorApology
            /\ pi_pc' = "returned"
            /\ UNCHANGED handler_response
       ELSE IF EmptyResponse(r)
       THEN /\ response' = EmptyApology
            /\ pi_pc' = "returned"
            /\ UNCHANGED <<handler_response, processing_complete>>
       ELSE /\ handler_response' = r
            /\ pi_pc' = "store"
            /\ UNCHANGED <<response, processing_complete>>
    /\ UNCHANGED <<user_input, background_tasks, stored, calls>>
    /\ UNCHANGED exceptAsst

\* the wait for store_task ends, lines 75-86: the task ran and spawned the
\* storage task (lines 116-118), or the 5 s passed before it ran
StoreOutcomes == {"spawned", "timeout"}
StoreWait(outcome) ==
    /\ pi_pc = "store"
    /\ background_tasks' = IF outcome = "spawned"
                           THEN Append(background_tasks, <<user_input, handler_response>>)
                           ELSE background_tasks
    /\ processing_complete' = TRUE
    /\ response' = AfterStore(outcome, handler_response)
    /\ pi_pc' = "returned"
    /\ UNCHANGED <<user_input, handler_response, stored, calls>>
    /\ UNCHANGED exceptAsst

\* a storage task ends, lines 95-113: the exchange is stored, or the
\* exception of the cache or of the memory service is logged
StoreDone(i, ok) ==
    /\ i \in 1..Len(background_tasks)
    /\ stored' = IF ok THEN Append(stored, background_tasks[i]) ELSE stored
    /\ background_tasks' = RemoveAt(background_tasks, i)
    /\ UNCHANGED <<pi_pc, user_input, handler_response, response,
                   processing_complete, calls>>
    /\ UNCHANGED exceptAsst

NextAssistant ==
    \/ \E text \in UserInputs : ProcessInput(text)
    \/ \E outcome \in {"ok", "timeout", "raises"} : ContextDone(outcome)
    \/ \E outcome \in HandlerOutcomes, r \in HandlerReturns : HandlerDone(outcome, r)
    \/ \E outcome \in StoreOutcomes : StoreWait(outcome)
    \/ \E i \in 1..MaxCalls, ok \in BOOLEAN : StoreDone(i, ok)

SpecAssistant == Init /\ [][NextAssistant]_vars

(***************************************************************************)
(* Mem0Service: store_interaction (services/memory_service.py 118-135),    *)
(* _process_batch (137-177), _store_single_interaction (179-226), and the  *)
(* end of the program (main.py 53-60).                                     *)
(***************************************************************************)
batch_size == 5

Count(i, seq) == Cardinality({k \in 1..Len(seq) : seq[k] = i})

\* store_interaction, lines 118-135, under _batch_lock: the interaction is
\* queued and, with batch_size of them waiting or more than 30 s since the
\* last batch (overdue), _process_batch takes the queue (lines 144-146) and
\* starts one _store_single_interaction for each item (lines 157-165)
StoreInteraction(overdue) ==
    /\ ~exited
    /\ mem_pc = "idle"
    /\ queued < MaxItems
    /\ queued' = queued + 1
    /\ LET q == Append(batch_queue, queued + 1)
       IN IF Len(q) >= batch_size \/ overdue
          THEN /\ batch' = q
               /\ batch_queue' = <<>>
               /\ running' = running \o q
               /\ mem_pc' = "gather"
          ELSE /\ batch_queue' = q
               /\ UNCHANGED <<batch, running, mem_pc>>
    /\ UNCHANGED <<backend, exited>>
    /\ UNCHANGED exceptMem

\* a _store_single_interaction reaches memory.add (lines 202-211)
ItemStored(k) ==
    /\ ~exited
    /\ k \in 1..Len(running)
    /\ backend' = Append(backend, running[k])
    /\ running' = RemoveAt(running, k)
    /\ UNCHANGED <<batch_queue, mem_pc, batch, queued, exited>>
    /\ UNCHANGED exceptMem

\* the gather of line 165 is over with every item stored
BatchDone ==
    /\ ~exited
    /\ mem_pc = "gather"
    /\ \A k \in 1..Len(batch) : Count(batch[k], running) = 0
    /\ mem_pc' = "idle"
    /\ batch' = <<>>
    /\ UNCHANGED <<batch_queue, running, backend, queued, exited>>
    /\ UNCHANGED exceptMem

\* the wait of line 165 ends by its 30 s timeout, which cancels the calls
\* still running, or by the exception of the call k after its third
\* attempt, which leaves the other calls running; lines 172-177 put the
\* whole batch back in the queue
BatchFails(k, kind) ==
    /\ ~exited
    /\ mem_pc = "gather"
    /\ k \in 1..Len(running)
    /\ Count(running[k], batch) > 0
    /\ running' = IF kind = "timeout" THEN <<>> ELSE RemoveAt(running, k)
    /\ batch_queue' = batch_queue \o batch
    /\ mem_pc' = "idle"
    /\ batch' = <<>>
    /\ UNCHANGED <<backend, queued, exited>>
    /\ UNCHANGED exceptMem

\* main returns: mode.run() is over and the finally of lines 59-60 runs
\* mode.cleanup(), which closes the audio and the STT client
\* (voice_mode.py 222-229); asyncio.run then cancels what is left
MainExit ==
    /\ ~exited
    /\ exited' = TRUE
    /\ running' = <<>>
    /\ mem_pc' = "idle"
    /\ UNCHANGED <<batch_queue, batch, backend, queued>>
    /\ UNCHANGED exceptMem

NextMemory ==
    \/ \E overdue \in BOOLEAN : StoreInteraction(overdue)
    \/ \E k \in 1..MaxItems : ItemStored(k)
    \/ BatchDone
    \/ \E k \in 1..MaxItems, kind \in {"timeout", "error"} : BatchFails(k, kind)
    \/ MainExit

SpecMemory == Init /\ [][NextMemory]_vars

(***************************************************************************)
(* ConversationCache, services/conversation_cache.py, as AidaAssistant     *)
(* creates it (core/assistant.py 18).                                      *)
(***************************************************************************)
max_size == 5

\* the interaction of the n-th add_interaction call (the timestamp is left
\* out: get_recent_context does not read it)
Interaction(n) == [user_input |-> <<"in", n>>, assistant_response |-> <<"out", n>>]

\* variant: a deque that refuses the new element when it is full
DequeAppendKeepOld(dq, x) == IF Len(dq) >= max_size THEN dq ELSE Append(dq, x)

\* deque(maxlen=max_size).append, line 25: when full, the leftmost goes
DequeAppend(dq, x) ==
    IF Len(dq) >= max_size THEN Append(Tail(dq), x) ELSE Append(dq, x)

\* seq[-n:] for n > 0
LastN(seq, n) == IF n >= Len(seq) THEN seq ELSE SubSeq(seq, Len(seq) - n + 1, Len(seq))

\* lines 34-35: `if limit: conversations = conversations[-limit:]`
Limited(seq, limit) ==
    IF limit.given /\ limit.n # 0 THEN LastN(seq, limit.n) ELSE seq

\* lines 39-42: f"User: {...}\nAssistant: {...}", as a sequence of pieces
ContextPart(conv) ==
    <<"User: ">> \o conv.user_input \o <<"\nAssistant: ">> \o conv.assistant_response

\* "\n\n".join(context_parts), line 44
RECURSIVE JoinParts(_)
JoinParts(convs) ==
    IF convs = <<>> THEN <<>>
    ELSE IF Len(convs) = 1 THEN ContextPart(convs[1])
    ELSE ContextPart(convs[1]) \o <<"\n\n">> \o JoinParts(Tail(convs))

\* add_interaction(user_id, ...), lines 13-25
AddInteraction(user) ==
    /\ LET n == 1 + Len(added["u1"]) + Len(added["u2"])
           dq == IF user \in DOMAIN conversations THEN conversations[user] ELSE <<>>
       IN /\ n <= MaxAdds
          /\ conversations' = [u \in DOMAIN conversations \cup {user} |->
                                  IF u = user THEN DequeAppend(dq, Interaction(n))
                                  ELSE conversations[u]]
          /\ added' = [added EXCEPT ![user] = Append(@, Interaction(n))]
    /\ UNCHANGED <<context, ctx_call>>
    /\ UNCHANGED exceptCache

\* get_recent_context(user_id, limit), lines 27-44
Limits == {Limit(FALSE, 0), Limit(TRUE, 0), Limit(TRUE, 1), Limit(TRUE, 2), Limit(TRUE, max_size + 1)}
GetRecentContext(user, limit) ==
    /\ ctx_call' = [made |-> TRUE, user |-> user, limit |-> limit,
                     adds |-> Len(added["u1"]) + Len(added["u2"])]
    /\ context' = IF user \notin DOMAIN conversations THEN <<>>
                  ELSE JoinParts(Limited(conversations[user], limit))
    /\ UNCHANGED <<conversations, added>>
    /\ UNCHANGED exceptCache

NextCache ==
    \/ \E user \in Users : AddInteraction(user)
    \/ \E user \in Users, limit \in Limits : GetRecentContext(user, limit)

SpecCache == Init /\ [][NextCache]_vars

(***************************************************************************)
(* InactivityTimer, utils/timer.py: two threading.Timer objects per reset. *)
(* A timer is pending from its start() until it fires or is cancelled.     *)
(***************************************************************************)
INACTIVITY_TIMEOUT == 300
WARNING_PROMPT_TIME == 250

\* threading.Timer(interval, function) followed by its start()
NewTimer(kind, interval, pair) ==
    [kind |-> kind, pair |-> pair, state |-> "pending", left |-> interval]

\* Timer.cancel(): stops a timer that is still waiting
Cancel(i, ts) ==
    IF i # 0 /\ ts[i].state = "pending"
    THEN [ts EXCEPT ![i].state = "cancelled"] ELSE ts

\* variant: only the timeout timer is cancelled
CancelTimersTimeoutOnly(ts) == Cancel(inactivity_timer, ts)

\* _cancel_timers, lines 39-44
CancelTimers(ts) == Cancel(warning_timer, Cancel(inactivity_timer, ts))

\* reset(), lines 18-33, called directly or through start(), lines 14-16
TimerReset(op) ==
    /\ Len(timers) < 2 * MaxArms
    /\ LET pair == Len(timers) \div 2 + 1
       IN timers' = CancelTimers(timers)
                      \o <<NewTimer("timeout", INACTIVITY_TIMEOUT, pair),
                           NewTimer("warning", WARNING_PROMPT_TIME, pair)>>
    /\ inactivity_timer' = Len(timers) + 1
    /\ warning_timer' = Len(timers) + 2
    /\ tm_op' = op
    /\ UNCHANGED exceptTimer

\* stop(), lines 35-37
TimerStop ==
    /\ timers' = CancelTimers(timers)
    /\ tm_op' = "stop"
    /\ UNCHANGED <<inactivity_timer, warning_timer>>
    /\ UNCHANGED exceptTimer

PendingTimers == {i \in 1..Len(timers) : timers[i].state = "pending"}

\* time passes up to the next deadline, and the timers due then fire
\* (_warning, _timeout, lines 46-56: no callback is ever set, they only log)
TimePasses ==
    /\ PendingTimers # {}
    /\ LET d == CHOOSE x \in {timers[i].left : i \in PendingTimers} :
                   \A i \in PendingTimers : x <= timers[i].left
       IN timers' = [i \in 1..Len(timers) |->
                        IF i \notin PendingTimers THEN timers[i]
                        ELSE IF timers[i].left = d
                             THEN [timers[i] EXCEPT !.state = "fired", !.left = 0]
                             ELSE [timers[i] EXCEPT !.left = @ - d]]
    /\ UNCHANGED <<inactivity_timer, warning_timer, tm_op>>
    /\ UNCHANGED exceptTimer

NextTimer ==
    \/ TimerReset("start")
    \/ TimerReset("reset")
    \/ TimerStop
    \/ TimePasses

SpecTimer == Init /\ [][NextTimer]_vars

(***************************************************************************)
(* ClaudeService._make_request_with_retry, services/claude_service.py      *)
(* 98-114, with the default max_retries its two callers leave in place.    *)
(***************************************************************************)
max_retries == 3

\* what one call of func under wait_for(..., timeout=30.0) ends in: a
\* result, one of the two exceptions of line 106, wait_for's own
\* TimeoutError, or any other exception
RetriedErrors == {"APITimeoutError", "RateLimitError"}
OtherErrors == {"TimeoutError", "Exception"}
CallResults == {"ok"} \cup RetriedErrors \cup OtherErrors

\* line 109
RetryWait(a) == (a + 1) * 2

\* variant: the test of line 107 one attempt late
LastAttemptLate(a) == a = max_retries

\* line 107
LastAttempt(a) == a = max_retries - 1

\* the call of _make_request_with_retry: the loop starts with attempt 0
RequestBegin ==
    /\ rq_pc \in {"idle", "returned", "raised"}
    /\ Len(finished) < MaxRequests
    /\ rq_pc' = "calling"
    /\ attempt' = 0
    /\ invocations' = 0
    /\ waits' = <<>>
    /\ errors' = <<>>
    /\ rq_outcome' = <<"none">>
    /\ finished' = IF rq_pc = "idle" THEN finished ELSE Append(finished, rq_outcome)
    /\ UNCHANGED exceptRequest

\* lines 101-114: func runs in a thread and the await ends with res
RequestCall(res) ==
    /\ rq_pc = "calling"
    /\ invocations' = invocations + 1
    /\ IF res = "ok"
       THEN /\ rq_pc' = "returned"
            /\ rq_outcome' = <<"response", invocations + 1>>
            /\ UNCHANGED <<errors, waits>>
       ELSE /\ errors' = Append(errors, res)
            /\ IF res \in RetriedErrors /\ ~LastAttempt(attempt)
               THEN /\ rq_pc' = "sleeping"
                    /\ waits' = Append(waits, RetryWait(attempt))
                    /\ UNCHANGED rq_outcome
               ELSE /\ rq_pc' = "raised"
                    /\ rq_outcome' = <<res, invocations + 1>>
                    /\ UNCHANGED waits
    /\ UNCHANGED <<attempt, finished>>
    /\ UNCHANGED exceptRequest

\* line 111 returns and the loop of line 100 goes on, or ends: a function
\* that falls off its end returns None
RequestWake ==
    /\ rq_pc = "sleeping"
    /\ attempt' = attempt + 1
    /\ IF attempt + 1 < max_retries
       THEN rq_pc' = "calling" /\ UNCHANGED rq_outcome
       ELSE rq_pc' = "returned" /\ rq_outcome' = <<"None", 0>>
    /\ UNCHANGED <<invocations, waits, errors, finished>>
    /\ UNCHANGED exceptRequest

NextRequest ==
    \/ RequestBegin
    \/ \E res \in CallResults : RequestCall(res)
    \/ RequestWake

SpecRequest == Init /\ [][NextRequest]_vars

(***************************************************************************)
(* Time, in seconds, as the keepalive sees it: audio_age is                *)
(* time.time() - self._last_audio_time, counted up to the first value      *)
(* past the limit.                                                         *)
(***************************************************************************)
\* variant: the test of line 100 with >= for >
IdleFromLimit == audio_age >= KEEPALIVE_SECS

\* `time.time() - self._last_audio_time > 5`, line 100
Idle == audio_age > KEEPALIVE_SECS

\* a second passes while every coroutine is suspended or a reply is played
Tick ==
    /\ \A u \in Threads : pc[u] \in RunningPcs => pc[u] \in BlockingPlayback
    /\ audio_age <= KEEPALIVE_SECS
    /\ audio_age' = audio_age + 1
    /\ wire' = NoWrite
    /\ UNCHANGED <<sttVars, voiceVars, coVars, obsVars>>
    /\ UNCHANGED <<runVars, failed_attempts>>
    /\ UNCHANGED <<timer, last_msg, open_sockets, backoffVars, svcVars, pa_return>>

\* The session with a clock: the socket may fail and is reconnected, and
\* the keepalive decides on the age of the last audio sent.
NextKeepalive ==
    \/ ConvStart
    \/ \E t \in Threads : ConnectBegin(t)
    \/ \E t \in Threads : ConnectCleanup(t)
    \/ \E t \in Threads : ConnectOpen(t, TRUE)
    \/ \E t \in Threads : ConnectVerify(t, TRUE)
    \/ InitOk(TRUE, TRUE)
    \/ ReconnectOk
    \/ \E f \in LoudFrames \cup {ReadError} : CaptureIter(f, TRUE)
    \/ Finally
    \/ CloseKa
    \/ CloseMh
    \/ CloseWs
    \/ RecvLoop
    \/ \E m \in Messages : RecvMsg(m)
    \/ RecvClosed
    \/ LlmDone(TRUE)
    \/ \E t \in Threads : PlayEnd(t)
    \/ KeepLoop
    \/ \E ok \in BOOLEAN : KeepPong(ok, Idle)
    \/ SockFail("closed")
    \/ Tick

SpecKeepalive == Init /\ [][NextKeepalive]_vars

\* The silence specification with the event loop's guarantees: a coroutine
\* whose awaited task has ended is resumed, and a playback call returns.
SpecSilenceFair ==
    /\ SpecSilence
    /\ WF_vars(Finally)
    /\ WF_vars(CloseKa)
    /\ WF_vars(CloseMh)
    /\ WF_vars(CloseWs)
    /\ WF_vars(\E t \in Threads : PlayEnd(t))

(***************************************************************************)
(* Properties.                                                             *)
(***************************************************************************)
AllFrames == QuietFrames \cup LoudFrames \cup {MarkedFrame, ReadError}

\* a step of the capture loop
CaptureStep == \E f \in AllFrames, send_ok \in BOOLEAN : CaptureIter(f, send_ok)

\* a text with a character that is not a blank
NonBlank(s) == \E i \in 1..Len(s) : s[i] # " "

\* u is s without its leading and trailing blanks
IsTrimOf(u, s) ==
    /\ u # <<>> => Head(u) # " " /\ u[Len(u)] # " "
    /\ \E i \in 0..Len(s) :
          /\ i + Len(u) <= Len(s)
          /\ SubSeq(s, i + 1, i + Len(u)) = u
          /\ \A k \in 1..Len(s) : (k <= i \/ k > i + Len(u)) => s[k] = " "

\* the peak of a frame is above the silence threshold
IsLoud(f) ==
    \E i \in 1..Len(f.samples) :
        f.samples[i] > SILENCE_LEVEL \/ f.samples[i] < -SILENCE_LEVEL

\* the fragments joined by single blanks
RECURSIVE JoinSp(_)
JoinSp(parts) ==
    IF parts = <<>> THEN <<>>
    ELSE IF Len(parts) = 1 THEN parts[1]
    ELSE parts[1] \o <<" ">> \o JoinSp(Tail(parts))

\* the final fragments of the turn that are not blank
NonBlankFinals == SelectSeq(finals, NonBlank)

\* C1: no step of the capture loop, and so no hand-over of a microphone
\* frame to process_audio, happens while is_speaking is set; the loop runs
\* again only once playback has ended.
C1_NoCaptureDuringPlayback ==
    [][CaptureStep => ~is_speaking /\ ~is_speaking']_vars

\* C1 witness: a reply is playing while the capture loop waits in its sleep
C1_Witness == is_speaking /\ pc[RECV] = "playing" /\ pc[CAP] = "loop"

\* C2, as claimed: while _handle_transcript has its processing flag set,
\* a step of the capture loop writes a filler frame, never a microphone
\* frame, and leaves silence_counter as it was.
C2_FillerWhileProcessing ==
    [][(self_processing_response /\ CaptureStep)
          => wire' # "mic" /\ silence_counter' = silence_counter]_vars

\* C3, as claimed: after one final Results message exactly one utterance
\* was handed to process_input, the final fragment.
C3_ExactlyOneCall ==
    Len(finals) = 1
        => Len(utterances) = 1 /\ IsTrimOf(utterances[1], JoinSp(finals))

\* C3, amended: after one final Results message process_input was called
\* once with the fragment without its outer blanks when the fragment is
\* not blank, and not at all when it is blank, empty or missing.
C3_OneCallIfNotBlank ==
    Len(finals) = 1
        => IF NonBlank(finals[1])
           THEN Len(utterances) = 1 /\ IsTrimOf(utterances[1], finals[1])
           ELSE utterances = <<>>

\* C3 witness: one padded final fragment was handed over without its padding
C3_Witness == finals = <<TextB>> /\ utterances = << <<"b">> >>

C5_OnlyFinalTranscripts ==
    [][/\ utterances' # utterances
            => \E m \in SegmentMessages :
                  /\ RecvMsg(m)
                  /\ m.json /\ m.type = "Results" /\ m.is_final
                  /\ m.alternatives # <<>>
                  /\ NonBlank(m.alternatives[1].transcript)
                  /\ Len(utterances') = Len(utterances) + 1
                  /\ SubSeq(utterances', 1, Len(utterances)) = utterances
                  /\ IsTrimOf(utterances'[Len(utterances')],
                              m.alternatives[1].transcript)
       /\ \A m \in SegmentMessages :
             (/\ RecvMsg(m)
              /\ m.json /\ m.type = "Results" /\ ~m.is_final
              /\ m.alternatives # <<>>
              /\ NonBlank(m.alternatives[1].transcript))
                => /\ last_cb'.set /\ ~last_cb'.is_final
                   /\ IsTrimOf(last_cb'.transcript, m.alternatives[1].transcript)
                   /\ utterances' = utterances]_vars

\* C5 witness: a blank final and then an interim transcript came in, the
\* callback saw the interim one, process_input was not called
C5_Witness ==
    /\ finals = <<TextBlank>>
    /\ last_cb = [transcript |-> TextA, is_final |-> FALSE, set |-> TRUE]
    /\ utterances = <<>>

\* C6, as claimed: no process_input call is cancelled in flight, and when
\* the session is closed every utterance handed over had its reply spoken.
C6_ReplyBeforeClose ==
    /\ cancelled = 0
    /\ pc[CAP] = "done" => spoken = Len(utterances)

\* C7: a frame whose peak is above the threshold resets the counter and
\* the turn goes on; any other frame adds one, and the turn ends on the
\* frame that takes the counter above the limit; the ended turn clears
\* is_listening, and closes the microphone stream and the STT session
\* once each, which leaves no socket.
C7_SilenceEndsTurnOnce ==
    /\ [](/\ silence_counter \in 0..(SILENCE_FRAMES + 1)
          /\ pc[CAP] \in {"iter", "loop"}
                => is_listening /\ silence_counter <= SILENCE_FRAMES
                      /\ closes = <<0, 0>>
          /\ pc[CAP] = "finally"
                => ~is_listening /\ silence_counter = SILENCE_FRAMES + 1
                      /\ closes = <<0, 0>>
          /\ pc[CAP] \in {"close_ka", "close_mh", "close_ws", "done"}
                => ~is_listening /\ stream = "closed" /\ closes = <<1, 1>>
          /\ pc[CAP] = "done" => websocket = "none" /\ ~connection_alive)
    /\ [][\A f \in QuietFrames \cup LoudFrames :
             CaptureIter(f, TRUE)
                => IF IsLoud(f)
                   THEN silence_counter' = 0 /\ is_listening'
                           /\ pc'[CAP] # "finally"
                   ELSE /\ silence_counter' = silence_counter + 1
                        /\ (pc'[CAP] = "finally")
                              = (silence_counter + 1 > SILENCE_FRAMES)]_vars
    /\ (pc[CAP] = "finally" ~> pc[CAP] = "done")

\* C7 witness: the turn ended by the silence limit and everything is closed
C7_Witness ==
    /\ pc[CAP] = "done"
    /\ silence_counter = SILENCE_FRAMES + 1
    /\ closes = <<1, 1>>

\* C8, as claimed: the receipt of an UtteranceEnd message ends the turn.
C8_UtteranceEndEndsTurn ==
    [][RecvMsg(Control("UtteranceEnd")) => ~is_listening']_vars

\* C9: while fewer than MAX_RECONNECT_ATTEMPTS attempts were made, every
\* failure found (by the receiver, the keepalive or process_audio) starts
\* another attempt; a connect that succeeds sets connection_alive and
\* leaves a new receiver and a new keepalive task on the open socket; and
\* a frame handed to process_audio on an alive connection with an open
\* socket is written on it.
C9_ReconnectResumes ==
    /\ [](reconnect_attempts \in 0..MAX_RECONNECT_ATTEMPTS)
    /\ [][/\ (reconnect_attempts < MAX_RECONNECT_ATTEMPTS /\ RecvClosed)
               => pc'[RECV] = "backoff"
                     /\ reconnect_attempts' = reconnect_attempts + 1
          /\ (reconnect_attempts < MAX_RECONNECT_ATTEMPTS
                 /\ \E idle \in BOOLEAN : KeepPong(FALSE, idle))
               => pc'[KEEP] = "backoff"
                     /\ reconnect_attempts' = reconnect_attempts + 1
          /\ (reconnect_attempts < MAX_RECONNECT_ATTEMPTS
                 /\ ~(connection_alive /\ websocket = "open")
                 /\ \E f \in LoudFrames : CaptureIter(f, TRUE))
               => pc'[CAP] = "backoff"
                     /\ reconnect_attempts' = reconnect_attempts + 1
          /\ (\E t \in Threads : ConnectVerify(t, TRUE))
               => connection_alive' /\ websocket' = "open"
                     /\ pc'[RECV] = "start" /\ pc'[KEEP] = "start"
          /\ ReconnectOk => reconnect_attempts' = 0 /\ connection_alive'
          /\ (connection_alive /\ websocket = "open"
                 /\ \E f \in LoudFrames : CaptureIter(f, TRUE))
               => wire' = "mic" /\ pc'[CAP] = "loop" /\ connection_alive']_vars

\* C9 witness: process_audio's reconnect succeeded at the last but one
\* attempt: the connection is alive and both tasks are new
C9_Witness ==
    /\ pc[CAP] = "connected"
    /\ cap_call = "process_audio"
    /\ reconnect_attempts = MAX_RECONNECT_ATTEMPTS - 1
    /\ connection_alive
    /\ websocket = "open"
    /\ pc[RECV] = "start"
    /\ pc[KEEP] = "start"

EntersPolicy(t) ==
    /\ ~connection_alive'
    /\ IF reconnect_attempts < MAX_RECONNECT_ATTEMPTS
       THEN reconnect_attempts' = reconnect_attempts + 1 /\ pc'[t] = "backoff"
       ELSE reconnect_attempts' = reconnect_attempts /\ pc'[t] = GiveUpPc(t)

\* a step of the capture loop whose websocket.send raised something other
\* than ConnectionClosed
SendErrorStep ==
    /\ connection_alive
    /\ websocket \in {"open", "closing"}
    /\ pc'[CAP] # "finally"
    /\ \E f \in AllFrames : CaptureIter(f, FALSE)

\* a step of the capture loop that found the connection down or the socket
\* closed
SendClosedStep ==
    /\ ~(connection_alive /\ websocket = "open")
    /\ pc'[CAP] # "finally"
    /\ \E f \in AllFrames : CaptureIter(f, TRUE)

\* C11: once MAX_RECONNECT_ATTEMPTS attempts were used up, a failure found
\* by process_audio ends the turn: the capture loop is left instead of
\* reading and submitting more frames.
C11_ExhaustedCapEndsTurn ==
    [][(reconnect_attempts = MAX_RECONNECT_ATTEMPTS /\ ~connection_alive
            /\ CaptureStep) => pc'[CAP] = "finally"]_vars

\* C12: the number of reconnects that failed since the last connect that
\* succeeded never exceeds MAX_RECONNECT_ATTEMPTS, whichever of the
\* sender, the keepalive and the receiver runs the handler.
C12_FailedAttemptsCapped == failed_attempts <= MAX_RECONNECT_ATTEMPTS

\* C13, as claimed: every failure the sender, the keepalive or the receiver
\* finds on the socket (closed, timed out, or any other send or receive
\* error) clears connection_alive and goes through _handle_connection_error.
C13_EveryFailureEntersPolicy ==
    [][/\ RecvClosed => EntersPolicy(RECV)
       /\ RecvError => EntersPolicy(RECV)
       /\ (\E idle \in BOOLEAN : KeepPong(FALSE, idle)) => EntersPolicy(KEEP)
       /\ SendClosedStep => EntersPolicy(CAP)
       /\ SendErrorStep => EntersPolicy(CAP)]_vars

\* C13, amended: a closed connection found by the receiver or by
\* process_audio, and any failure found by the keepalive, clears
\* connection_alive and goes through _handle_connection_error; any other
\* exception of send or recv is logged only: connection_alive and the
\* attempts stay as they are, process_audio returns False and the
\* receiver goes on after a short sleep.
C13_ClosedConnectionEntersPolicy ==
    [][/\ RecvClosed => EntersPolicy(RECV)
       /\ (\E idle \in BOOLEAN : KeepPong(FALSE, idle)) => EntersPolicy(KEEP)
       /\ SendClosedStep => EntersPolicy(CAP)
       /\ SendErrorStep => /\ connection_alive'
                           /\ reconnect_attempts' = reconnect_attempts
                           /\ pc'[CAP] = "loop"
                           /\ wire' = NoWrite
       /\ RecvError => /\ connection_alive' = connection_alive
                       /\ reconnect_attempts' = reconnect_attempts
                       /\ pc'[RECV] = "nap"]_vars

\* C13 witness: the receiver found its connection closed while it was
\* marked alive and waits for its second attempt
C13_Witness ==
    /\ pc[RECV] = "backoff"
    /\ ~connection_alive
    /\ reconnect_attempts = 2
    /\ pc[CAP] = "loop"

\* C14: connection_alive is set only by a connect whose socket was opened
\* and whose ping/pong verification succeeded, and that connect returns
\* True; a connect whose opening or verification fails returns False with
\* connection_alive clear and starts no receiver and no keepalive task.
C14_AliveOnlyAfterVerification ==
    /\ [](\A t \in Threads : pc[t] = "connect_failed" => ~connection_alive)
    /\ [](pc[CAP] = "connected" => connection_alive /\ websocket # "none")
    /\ [][/\ (~connection_alive /\ connection_alive')
               => \E t \in Threads : /\ pc[t] = "conn_verify"
                                     /\ websocket = "open"
                                     /\ ConnectVerify(t, TRUE)
          /\ \A t \in Threads :
               (ConnectOpen(t, FALSE) \/ ConnectVerify(t, FALSE))
                   => /\ pc'[t] = "connect_failed"
                      /\ ~connection_alive'
                      /\ \A u \in Tasks \ {t} : pc'[u] = pc[u]]_vars

\* C14 witness: the receiver's reconnect opened a socket whose verification
\* failed: connect returned False and left the socket in place
C14_Witness ==
    /\ pc[RECV] = "connect_failed"
    /\ websocket = "open"
    /\ ~connection_alive
    /\ pc[KEEP] = "backoff"

\* C16: when close has returned, no receiver and no keepalive task is
\* left running, the tasks of a reconnect that completed during close
\* included.
C16_CloseLeavesNoTask == pc[CAP] = "done" => ~Live(RECV) /\ ~Live(KEEP)

\* the state a completed close leaves, and that of a client never connected
Closed ==
    /\ ~connection_alive
    /\ websocket = "none"
    /\ \A t \in Tasks : ~Live(t)

\* C15: a close() called on a closed client (after a close that completed,
\* or before any connect) returns at once: connection_alive stays clear,
\* websocket None, the tasks as they were, the attempts untouched, and
\* nothing is written.
C15_CloseIdempotent ==
    [][(Closed /\ (Cleanup \/ Finally))
          => /\ Closed'
             /\ pc'[CAP] = "done"
             /\ pc'[RECV] = pc[RECV]
             /\ pc'[KEEP] = pc[KEEP]
             /\ <<websocket, reconnect_attempts, lock>>' =
                    <<websocket, reconnect_attempts, lock>>
             /\ wire' = NoWrite]_vars

\* C15 witness: VoiceMode.cleanup has closed the client a second time,
\* after the close of an interrupted turn that had connected
C15_Witness ==
    /\ cap_call = "cleanup"
    /\ pc[CAP] = "done"
    /\ interrupted
    /\ closes = <<1, 2>>
    /\ pc[RECV] = "done"
    /\ pc[KEEP] = "done"
    /\ Closed

\* C17: handle_conversation starts only in a cycle whose wake-word
\* listening ended by a detection; when it ended otherwise (detector
\* initialization failed, no input stream, a frame read failed) no
\* conversation starts.
C17_ConversationOnlyAfterDetection == [][ConvStart => listened = "detected"]_vars

\* C18: whenever WakeWordDetector.initialize returns False, run() ends:
\* no conversation starts and the initialization is not tried again.
C18_WakeInitFailureEndsRun ==
    [][(RunStart(FALSE) \/ (~shutdown_event /\ listened' = "init_failed"
                               /\ ListenForWakeWord("init_failed")))
          => pc'[CAP] = "run_done"]_vars

\* C19: handle_conversation calls STTService.initialize at most
\* INIT_ATTEMPTS times; when the last one fails it goes to its finally
\* with no microphone stream opened, no greeting played and nothing
\* written on a socket, closes the STT service and run() goes back to
\* waiting for the wake word.
C19_ThreeInitAttempts ==
    /\ [](init_attempt + 1 <= INIT_ATTEMPTS)
    /\ [](stream # "open" => pc[CAP] \notin {"greeting", "iter"})
    /\ [][/\ (InitFail /\ init_attempt = INIT_ATTEMPTS - 1)
               => /\ pc'[CAP] = "finally"
                  /\ stream' = "none"
                  /\ ~is_speaking'
                  /\ wire' = NoWrite
          /\ (InitFail /\ init_attempt < INIT_ATTEMPTS - 1)
               => pc'[CAP] = "init_sleep" /\ init_attempt' = init_attempt + 1
          /\ (Finally /\ stream = "none")
               => /\ closes' = <<closes[1], closes[2] + 1>>
                  /\ ~connection_alive'
                  /\ spoken' = spoken
                  /\ wire' = NoWrite
          /\ ConversationReturns => pc'[CAP] = "wake"]_vars

\* C19 witness: the three calls of the first turn failed, no task was ever
\* created, the service was closed and run() waits for the wake word again
C19_Witness ==
    /\ pc[CAP] = "wake"
    /\ cycles = 1
    /\ listened = "detected"
    /\ closes = <<0, 1>>
    /\ stream = "none"
    /\ pc[RECV] = "none"
    /\ pc[KEEP] = "none"
    /\ websocket = "none"

\* C20: while shutdown_event is unset and the wake-word initialization of
\* run() succeeded, run() does not end: a failure inside a turn leads to
\* the finally of handle_conversation, and an exception that leaves
\* handle_conversation or listen_for_wake_word is caught by run(), which
\* sleeps and goes back to waiting for the wake word.
C20_RunSurvivesFailures ==
    /\ [](pc[CAP] = "run_done" => shutdown_event \/ (~porcupine /\ cycles = 0))
    /\ [][/\ FinallyRaises => pc'[CAP] = "run_sleep"
          /\ (~shutdown_event /\ ListenForWakeWord("close_error"))
               => pc'[CAP] = "run_sleep"
          /\ (RunSleepEnd \/ ConversationReturns) => pc'[CAP] = "wake"
          /\ (pc[CAP] \in {"iter", "loop"} /\ is_listening
                 /\ CaptureIter(ReadError, TRUE)) => pc'[CAP] = "finally"]_vars

\* C20 witness: closing the microphone raised in the finally of the first
\* turn; run() caught it and waits for the wake word again, with the STT
\* client still connected
C20_Witness ==
    /\ pc[CAP] = "wake"
    /\ cycles = 1
    /\ stream = "open"
    /\ ~is_listening
    /\ closes = <<0, 0>>
    /\ websocket = "open"


\* C27: each time a turn of the voice session is over, the inactivity
\* timer is armed again (InactivityTimer.reset or start was called).
C27_TurnRearmsTimer == [][ConversationReturns => timer' = "armed"]_vars


\* the inbound messages that are no Results message
SkippedMessages == {m \in SegmentMessages : ~(m.json /\ m.type = "Results")}

\* C23: a message that is no well-formed Results message (Error, Warning,
\* another type, no JSON) is skipped: connection_alive, the socket and the
\* attempts stay as they are, the callback is not invoked, nothing is
\* handed on, and the receiver waits for the next message; a final Results
\* message that follows is delivered to the callback.
C23_NonResultsSkipped ==
    [][/\ \A m \in SkippedMessages :
            (RecvMsg(m) /\ last_msg' = MsgKind(m))
               => /\ UNCHANGED <<connection_alive, websocket, reconnect_attempts>>
                  /\ UNCHANGED <<last_cb, finals, utterances, spoken>>
                  /\ UNCHANGED self_processing_response
                  /\ connection_alive => pc'[RECV] = "recv" /\ wsock'[RECV] = "current"
       /\ (last_msg \in {MsgKind(m) : m \in SkippedMessages}
              /\ RecvMsg(Results(TRUE, TextA)) /\ last_msg' = "Results")
            => /\ last_cb' = [transcript |-> TextA, is_final |-> TRUE, set |-> TRUE]
               /\ utterances' = Append(utterances, TextA)]_vars

\* C23 witness: an Error message carrying a transcript has just been
\* skipped: no callback was invoked and the receiver waits for the next
\* message
C23_Witness ==
    /\ last_msg = "Error"
    /\ pc[RECV] = "recv"
    /\ wsock[RECV] = "current"
    /\ connection_alive
    /\ websocket = "open"
    /\ last_cb = NoCallback
    /\ finals = <<>>


\* a step in which thread t starts a reconnect attempt
StartsAttempt(t) == pc[t] # "backoff" /\ pc'[t] = "backoff"

\* C28: the wait before a reconnect attempt is RECONNECT_DELAY times the
\* index of the attempt among those started since the last connect that
\* succeeded (2, 4, 6, 8, 10 s); a connect that succeeds, from initialize
\* or from a reconnect, sets _reconnect_attempts back to 0, so that the
\* counter is that index whenever the handler runs.
C28_BackoffGrowsWithAttempt ==
    /\ [](wait_time \in {0} \cup {RECONNECT_DELAY * i : i \in 1..MAX_RECONNECT_ATTEMPTS})
    /\ [](pc[CAP] # "connected" => reconnect_attempts = started_attempts)
    /\ [][/\ \A t \in Threads :
                StartsAttempt(t) => wait_time' = RECONNECT_DELAY * (started_attempts + 1)
          /\ (ReconnectOk \/ \E stream_ok \in BOOLEAN, tts_ok \in BOOLEAN :
                                 InitOk(stream_ok, tts_ok))
                => reconnect_attempts' = 0
          /\ (\E t \in Tasks : ConnectVerify(t, TRUE)) => reconnect_attempts' = 0]_vars

\* C28 witness: the last attempt allowed waits 10 s
C28_Witness ==
    /\ pc[CAP] = "backoff"
    /\ reconnect_attempts = MAX_RECONNECT_ATTEMPTS
    /\ wait_time = 10
    /\ failed_attempts >= MAX_RECONNECT_ATTEMPTS - 1

\* C29: a reconnect attempt that was waiting in its backoff when another
\* one succeeded does not close or replace the connection that one set up.
C29_PendingAttemptSparesConnection ==
    [][\A t \in Threads :
          (ConnectCleanup(t) /\ IsReconnect(t))
             => ~(connection_alive /\ websocket = "open")]_vars

\* the threads inside connect(), past the lock
Connecting == {t \in Threads : pc[t] \in {"conn_cleanup", "conn_open", "conn_verify"}}

InFlight == Len(utterances) - spoken - cancelled

\* C26: at most one process_input call of the voice session is in flight
\* at any time, that of the receiver task while it waits in
\* _handle_transcript, reconnects that replace the receiver included; a
\* call is made only when none is in flight, by the receiver, with the final
\* transcript it has just received, so the calls follow the receipt order.
C26_OneCallInFlight ==
    /\ [](InFlight \in {0, 1})
    /\ [](InFlight = 1 <=> pc[RECV] = "llm")
    /\ [][utterances' # utterances
            => /\ InFlight = 0
               /\ \E m \in Messages :
                     /\ RecvMsg(m)
                     /\ finals' = Append(finals, Fragment(m))
                     /\ utterances' = Append(utterances, Strip(Fragment(m)))]_vars

\* C26 witness: a reconnect cancelled the receiver during a call, and the
\* receiver that replaced it has made the next call
C26_Witness ==
    /\ cancelled = 1
    /\ Len(utterances) = 2
    /\ pc[RECV] = "llm"
    /\ failed_attempts = 0


\* C25: while a reply is played the keepalive loop still gets its turn:
\* with the capture loop suspended and the keepalive task due at its loop
\* head, the keepalive step can be taken during the playback.
C25_KeepaliveRunsDuringPlayback ==
    (/\ pc[RECV] = "playing"
     /\ is_speaking
     /\ pc[CAP] = "loop"
     /\ pc[KEEP] \in {"start", "sleep"})
        => ENABLED KeepLoop


\* C24: when the keepalive's turn comes on an open socket with
\* connection_alive set (its ping answered), it sends the KeepAlive message
\* if and only if the last audio frame was sent more than 5 s ago; it never
\* sends KeepAlive when audio was sent within the last 5 s.
C24_KeepAliveIffNoRecentAudio ==
    /\ [](wire = "KeepAlive" => audio_age > KEEPALIVE_SECS)
    /\ [][KeepPong(TRUE, Idle)
            => /\ connection_alive /\ websocket = "open"
               /\ wire' = "KeepAlive" <=> audio_age > KEEPALIVE_SECS
               /\ audio_age' = audio_age]_vars
    /\ [][wire' = "KeepAlive" => KeepPong(TRUE, Idle)]_vars

\* C24 witness: the capture loop has sent audio, more than 5 s have passed
\* since, and the keepalive has just sent KeepAlive
C24_Witness ==
    /\ wire = "KeepAlive"
    /\ audio_age = KEEPALIVE_SECS + 1
    /\ pc[KEEP] = "sleep"
    /\ pc[CAP] = "loop"
    /\ is_listening



\* C21: whatever the handler does, process_input returns a text that is
\* not empty and raises nothing: the handler's response when that is not
\* empty, the timeout apology when the handler takes more than 60 s, the
\* empty-response apology when it returns an empty or blank text, and the
\* error apology when it raises.
C21_AlwaysReturnsText ==
    /\ [](pi_pc \in {"idle", "context", "claude", "store", "returned"})
    /\ [](pi_pc = "returned"
            => /\ response # NoText
               /\ ~EmptyResponse(response)
               /\ IF handler_response # NoText
                  THEN response = handler_response
                  ELSE response \in Apologies)
    /\ [][\A outcome \in HandlerOutcomes, r \in HandlerReturns :
            HandlerDone(outcome, r)
              => IF outcome = "timeout"
                 THEN pi_pc' = "returned" /\ response' = TimeoutApology
                 ELSE IF outcome = "raises"
                 THEN pi_pc' = "returned" /\ response' = ErrorApology
                 ELSE IF r \in {TextBlank, TextEmpty, None}
                 THEN pi_pc' = "returned" /\ response' = EmptyApology
                 ELSE pi_pc' = "store" /\ handler_response' = r]_vars

\* C21 witness: the second call returned the apology for a blank response
C21_Witness ==
    /\ calls = 2
    /\ pi_pc = "returned"
    /\ response = EmptyApology
    /\ handler_response = NoText

\* C22: once the handler has returned a response that is not empty,
\* process_input returns exactly that response, whether the storage task
\* was started or the 5 s wait timed out; the end of a storage task, good
\* or bad, changes nothing of the call or of its reply; and while storage
\* tasks are still running the next call can be made.
C22_StorageLeavesReply ==
    /\ [][\A outcome \in StoreOutcomes :
            StoreWait(outcome)
              => /\ pi_pc' = "returned"
                 /\ response' = handler_response
                 /\ handler_response' = handler_response]_vars
    /\ [][\A i \in 1..MaxCalls, ok \in BOOLEAN :
            StoreDone(i, ok)
              => UNCHANGED <<pi_pc, response, handler_response, user_input>>]_vars
    /\ [](pi_pc = "returned" /\ calls < MaxCalls
            => ENABLED (\E text \in UserInputs : ProcessInput(text)))

\* C22 witness: the next call is with the handler while the storage task
\* of the call before is still running
C22_Witness ==
    /\ pi_pc = "claude"
    /\ calls = 2
    /\ Len(background_tasks) = 1
    /\ stored = <<>>


\* a step in which STTService.close returns to handle_conversation
CloseReturns == pc[CAP] # "done" /\ pc'[CAP] = "done"

\* C31: close sends CloseStream on the socket when it is open, before it
\* closes it; when the send or the close fails (the socket is closing or
\* closed) nothing is written and nothing is raised: close returns, and in
\* both cases it leaves websocket None and connection_alive clear.
C31_CloseBestEffort ==
    [][/\ CloseWs => /\ wire' = "CloseStream" <=> websocket = "open"
                     /\ pc'[CAP] = "done"
       /\ CloseReturns => websocket' = "none" /\ ~connection_alive'
       /\ wire' = "CloseStream" => websocket = "open" /\ websocket' = "none"]_vars

\* C31 witness: the session was opened at the first attempt and never
\* reconnected, its socket was lost, and close has returned without a
\* write, with every task ended
C31_Witness ==
    /\ \A t \in Threads : pc[t] = "done"
    /\ wire = NoWrite
    /\ websocket = "none"
    /\ ~connection_alive
    /\ init_attempt = 0
    /\ failed_attempts = 0
    /\ reconnect_attempts = 0


\* a step in which handle_conversation is left, by its return or by an
\* exception of its finally
ConversationExits ==
    /\ pc[CAP] \in {"finally", "close_ka", "close_mh", "close_ws"}
    /\ pc'[CAP] \in {"done", "run_sleep", "run_done"}

\* C32: on every exit of handle_conversation the capture stream is closed,
\* is_listening is false and the STT session is closed (websocket None,
\* connection_alive clear).
C32_EveryExitReleases ==
    [][ConversationExits
         => /\ stream' # "open"
            /\ ~is_listening'
            /\ websocket' = "none"
            /\ ~connection_alive']_vars


\* C33: once close has returned the client stays closed: websocket stays
\* None and connection_alive clear, whatever reconnect or loop was in
\* progress when close began.
C33_StaysClosed ==
    pc[CAP] = "done" => websocket = "none" /\ ~connection_alive


\* C34: _reconnect_attempts stays within 0..MAX_RECONNECT_ATTEMPTS in every
\* reachable state, however the capture loop, the keepalive and the
\* receiver interleave in _handle_connection_error; a step adds one to it
\* or sets it back to 0.
C34_AttemptsInRange ==
    /\ [](reconnect_attempts \in 0..MAX_RECONNECT_ATTEMPTS)
    /\ [][reconnect_attempts' \in {reconnect_attempts, reconnect_attempts + 1, 0}]_vars

\* C34 witness: the three coroutines are in the handler's wait at the same
\* time and the counter is at its limit
C34_Witness ==
    /\ reconnect_attempts = MAX_RECONNECT_ATTEMPTS
    /\ \A t \in Threads : pc[t] = "backoff"


\* an iteration of the capture loop that calls process_audio
CallsProcessAudio ==
    /\ \E f \in LoudFrames \cup {MarkedFrame, ReadError}, send_ok \in BOOLEAN :
          CaptureIter(f, send_ok)
    /\ pa_return' # "none"

\* C35: process_audio returns True if and only if it wrote the frame on
\* the open socket, and only then sets the time of the last audio; with
\* connection_alive clear or the socket None or closed it writes nothing,
\* starts at most one reconnect attempt and returns False, also when that
\* attempt succeeds.
C35_ProcessAudioReturn ==
    [][/\ CallsProcessAudio
            => /\ pa_return' = "True" <=> wire' \in {"mic", "filler"}
               /\ pa_return' = "True" => /\ connection_alive
                                         /\ websocket = "open"
                                         /\ audio_age' = 0
               /\ pa_return' # "True" => audio_age' = audio_age
               /\ (~connection_alive \/ websocket \in {"none", "closed"})
                     => /\ wire' = NoWrite
                        /\ pa_return' \in {"pending", "False"}
       /\ pa_return = "pending"
            => /\ pa_return' \in {"pending", "False"}
               /\ ~StartsAttempt(CAP)
               /\ wire' \notin {"mic", "filler"}
       /\ ReconnectOk => pa_return = "pending" /\ pa_return' = "False"]_vars

\* C35 witness: the marked frame was handed over while the connection was
\* down and was not written; the connection is up again and the last call
\* has returned False
C35_Witness ==
    /\ pa_return = "False"
    /\ mark.handed /\ mark.down /\ ~mark.sent /\ ~mark.later
    /\ pc[CAP] = "loop"
    /\ connection_alive
    /\ websocket = "open"
    /\ reconnect_attempts = 0


\* C36: no interaction is stored in the memory backend more than once,
\* retries of a batch that failed or timed out included.
C36_StoredOnce == \A i \in 1..queued : Count(i, backend) <= 1

\* C37: when the program has exited through main, every interaction that
\* was queued has been stored.
C37_StoredBeforeExit == exited => \A i \in 1..queued : Count(i, backend) >= 1


\* what a user's cache is to hold: the last max_size interactions added
\* for the user, oldest first
Recent(user) == LastN(added[user], max_size)

\* the interactions get_recent_context is to return for a limit that is
\* taken as given whenever it is not None
ExpectedAsClaimed(user, limit) ==
    IF ~limit.given THEN Recent(user)
    ELSE IF limit.n = 0 THEN <<>>
    ELSE LastN(Recent(user), limit.n)

\* the same where a limit of 0 stands for no limit, as None does
ExpectedAmended(user, limit) ==
    IF limit.given /\ limit.n > 0 THEN LastN(Recent(user), limit.n) ELSE Recent(user)

\* the cache is as the last get_recent_context call saw it
NoAddSince == ctx_call.adds = Len(added["u1"]) + Len(added["u2"])

\* the state of the cache, and the effect of an add on the other users
CacheHoldsRecent ==
    /\ [](/\ DOMAIN conversations = {u \in Users : added[u] # <<>>}
          /\ \A u \in DOMAIN conversations :
                /\ conversations[u] = Recent(u)
                /\ Len(conversations[u]) = IF Len(added[u]) < max_size
                                           THEN Len(added[u]) ELSE max_size)
    /\ [][\A user \in Users :
            AddInteraction(user)
              => \A u \in DOMAIN conversations \ {user} :
                    conversations'[u] = conversations[u]]_vars

\* C38, as claimed: the cache holds the most recent min(n, max_size)
\* interactions of each user in insertion order, an add leaves the other
\* users' entries alone, and get_recent_context returns them in that order,
\* only the last `limit` of them whenever a limit is given, and the empty
\* string for an unknown user.
C38_ContextAsClaimed ==
    ctx_call.made /\ NoAddSince
      => context = IF added[ctx_call.user] = <<>> THEN <<>>
                   ELSE JoinParts(ExpectedAsClaimed(ctx_call.user, ctx_call.limit))

\* C38, amended: the same, where get_recent_context returns only the last
\* `limit` interactions when limit is a positive number, and all of them
\* when limit is None or 0.
C38_CacheKeepsRecent ==
    /\ CacheHoldsRecent
    /\ [](ctx_call.made /\ NoAddSince
            => context = IF added[ctx_call.user] = <<>> THEN <<>>
                         ELSE JoinParts(ExpectedAmended(ctx_call.user, ctx_call.limit)))

\* C38 witness: six interactions were added for one user, the oldest was
\* evicted, and the context of the last two was asked for
C38_Witness ==
    /\ Len(added["u1"]) = max_size + 1
    /\ "u1" \in DOMAIN conversations
    /\ conversations["u1"][1] = Interaction(2)
    /\ ctx_call = [made |-> TRUE, user |-> "u1", limit |-> Limit(TRUE, 2),
                   adds |-> max_size + 1]
    /\ context = ContextPart(Interaction(max_size)) \o <<"\n\n">>
                    \o ContextPart(Interaction(max_size + 1))


PendingOf(kind) == {i \in PendingTimers : timers[i].kind = kind}

\* C39: after any sequence of start/reset/stop calls at most one warning
\* timer and one timeout timer are pending, both of the pair armed last;
\* after stop none is pending; and within one armed pair the warning
\* (250 s) fires before the timeout (300 s).
C39_OnePairPending ==
    /\ [](/\ Cardinality(PendingOf("warning")) <= 1
          /\ Cardinality(PendingOf("timeout")) <= 1
          /\ PendingTimers \subseteq {inactivity_timer, warning_timer}
          /\ tm_op = "stop" => PendingTimers = {})
    /\ [](/\ WARNING_PROMPT_TIME < INACTIVITY_TIMEOUT
          /\ \A i, j \in PendingTimers :
                timers[i].kind = "warning" /\ timers[j].kind = "timeout"
                  /\ timers[i].pair = timers[j].pair
                  => timers[i].left < timers[j].left)
    /\ [][\A j \in 1..Len(timers) :
            timers[j].kind = "timeout" /\ timers[j].state = "pending"
              /\ timers'[j].state = "fired"
              => \E i \in 1..Len(timers) :
                    /\ timers[i].kind = "warning"
                    /\ timers[i].pair = timers[j].pair
                    /\ timers[i].state = "fired"]_vars

\* C39 witness: a second reset cancelled the first pair and armed the
\* second, whose warning has fired while its timeout is still pending
C39_Witness ==
    /\ Len(timers) = 4
    /\ timers[1].state = "cancelled" /\ timers[2].state = "cancelled"
    /\ timers[4].state = "fired"
    /\ PendingTimers = {3}
    /\ timers[3].left = INACTIVITY_TIMEOUT - WARNING_PROMPT_TIME


\* C40: _make_request_with_retry calls the request at most max_retries (3)
\* times; every call but the last ended in APITimeoutError or
\* RateLimitError and was followed by a wait of (attempt+1)*2 seconds; the
\* first successful result is returned with no further call; the error of
\* the last attempt is re-raised; any other exception is raised at once.
C40_BoundedRetry ==
    /\ [](/\ invocations <= max_retries
          /\ \A k \in 1..Len(waits) : waits[k] = 2 * k /\ errors[k] \in RetriedErrors
          /\ rq_pc \in {"calling", "sleeping"}
               => /\ Len(errors) = invocations
                  /\ \A k \in 1..Len(errors) : errors[k] \in RetriedErrors
                  /\ Len(waits) = invocations
          /\ rq_pc = "calling" => attempt = invocations /\ attempt < max_retries
          /\ rq_pc = "returned"
               => /\ rq_outcome = <<"response", invocations>>
                  /\ Len(errors) = invocations - 1
                  /\ Len(waits) = invocations - 1
          /\ rq_pc = "raised"
               => /\ Len(errors) = invocations
                  /\ rq_outcome = <<errors[invocations], invocations>>
                  /\ Len(waits) = invocations - 1
                  /\ \/ errors[invocations] \in OtherErrors
                     \/ invocations = max_retries)
    /\ [][/\ rq_pc \in {"returned", "raised"} /\ rq_pc' # "calling"
            => invocations' = invocations
          /\ invocations' > invocations /\ invocations > 0
            => /\ errors[invocations] \in RetriedErrors
               /\ waits[invocations] = RetryWait(invocations - 1)]_vars

\* C40 witness: two rate-limit or timeout errors, waits of 2 and 4 seconds,
\* and the third call failed too: its error was raised
C40_Witness ==
    /\ rq_pc = "raised"
    /\ invocations = max_retries
    /\ waits = <<2, 4>>
    /\ errors = <<"RateLimitError", "APITimeoutError", "RateLimitError">>
    /\ rq_outcome = <<"RateLimitError", 3>>

====
